---- MODULE Spec2Model ----
(***************************************************************************)
(* A model of the ghostsnap repository engine: the pack format             *)
(* (core/src/pack.rs), the sealing of objects (core/src/crypto.rs), the    *)
(* repository init/open and object store (core/src/repository.rs), and the *)
(* backup and restore commands (cli/src/commands/backup.rs, restore.rs).   *)
(*                                                                         *)
(* The specifications that share the module include:                       *)
(*   SpecPack  a PackFile built by add_chunk, written by write_to and read *)
(*             back by read_from;                                          *)
(*   SpecRepo  Repository::init / Repository::open on one path, and the    *)
(*             sessions they return saving and loading snapshot objects;   *)
(*   Spec      backup sessions (BackupCommand::run, step by step, with I/O *)
(*             failures and crashes) and restores on an initialised        *)
(*             repository;                                                 *)
(*   SpecKeys, SpecRetry, SpecBackend, SpecCrypto, SpecChunker,            *)
(*   SpecManager, SpecIndex, SpecWrites, SpecInit                          *)
(*             one component each (key files, the retry driver, the local  *)
(*             backend, the AEAD sealing, the chunker, the PackManager,    *)
(*             the IndexManager, concurrent writes of the local backend,   *)
(*             and init taken one file-system call at a time).             *)
(***************************************************************************)
EXTENDS Integers, Sequences, FiniteSets, TLC

VARIABLES
    \* ---- SpecPack: one PackFile and its serialized form
    pf,         \* the PackFile under construction
    pfLog,      \* the (id, data) pairs passed to add_chunk, in call order
    pfWire,     \* Some(bytes written by write_to under pfWire.key) or None
    pfRead,     \* Some(result of read_from) or None
    \* ---- the repository on disk (one path)
    dirs,       \* whether the path and its subdirectories exist
    config,     \* the config object, or None
    keys,       \* keys/<key_id> -> KeyFile
    packs,      \* data/<pack_id>.pack -> pack object
    index,      \* index/<hex(chunk_id)> -> index object
    trees,      \* data/<hex(tree_id)> -> sealed tree
    snapshots,  \* snapshots/<id> -> sealed snapshot
    \* ---- SpecRepo: the sessions returned by init / open
    sessions,   \* sequence of open sessions, each the data key of its Encryptor
    lastOp,     \* the last init/open/save/load call and its result
    rng,        \* number of random values (uuids, tree nonces) drawn so far
    \* ---- Spec: the backup command in progress, and the restore target
    pc,         \* position of BackupCommand::run
    bk,         \* locals of BackupCommand::run and process_file
    pm,         \* the session's PackManager
    sv,         \* the frame of save_pack_and_index
    out,        \* the last command: its result and, for a restore, the
                \* target directory it filled
    nsess,      \* number of backup sessions started
    faults,     \* number of I/O failures and crashes so far
    base,       \* the store as it was when the session in progress began
    done,       \* the path lists of the backups that succeeded without any
                \* failure
    \* ---- SpecRetry: the last call of the retry driver
    rt,         \* its configuration, the operation's outcomes, and what the
                \* driver did (result, invocations, sleeps)
    \* ---- SpecBackend: the directory of a LocalBackend
    be,         \* the files under base_path and the last blob operation
    \* ---- SpecIndex: an IndexManager
    im,         \* the manager (indices, master_index), the indexes passed to
                \* add_index in call order, and the last call
    \* ---- SpecInit: Repository::init taken one file-system call at a time
    ini         \* the position of the init in progress, its arguments, and
                \* the subdirectories that exist under the path

packVars  == <<pf, pfLog, pfWire, pfRead>>
storeVars == <<dirs, config, keys, packs, index, trees, snapshots>>
repoVars  == <<sessions, lastOp>>
bkVars    == <<pc, bk, pm, sv, out, nsess, faults, base, done>>
extVars   == <<rt, be, im, ini>>
vars      == <<packVars, storeVars, repoVars, rng, bkVars, extVars>>

----------------------------------------------------------------------------
(* Options, results and maps *)

None      == [some |-> FALSE]
Some(x)   == [some |-> TRUE, v |-> x]
Ok(x)     == [ok |-> TRUE, v |-> x]
Err(kind) == [ok |-> FALSE, err |-> kind]

EmptyMap     == [x \in {} |-> x]
Put(f, k, x) == [y \in DOMAIN f \cup {k} |-> IF y = k THEN x ELSE f[y]]

RECURSIVE Concat(_)
Concat(ss) == IF ss = <<>> THEN <<>> ELSE Head(ss) \o Concat(Tail(ss))

RECURSIVE SumOver(_, _)
SumOver(S, f) ==
    IF S = {} THEN 0
    ELSE LET x == CHOOSE y \in S : TRUE IN f[x] + SumOver(S \ {x}, f)

Slice(s, from, to) == SubSeq(s, from + 1, to)    \* &s[from..to], 0-based

----------------------------------------------------------------------------
(* core/src/crypto.rs and the hashing of core/src/types.rs *)

NonceLen == 12
TagLen   == 16

\* ChunkID::from_data / Chunk::id: Blake3 of the bytes, taken as injective.
ChunkIdOf(data) == <<"blake3", data>>

\* A key derivation that does not depend on the password
DeriveIgnoringPassword(password, salt) == <<"kek", "", salt>>

\* MasterKey::derive_from_password: Argon2id of (password, salt), taken as
\* injective in both.
DeriveFromPassword(password, salt) == <<"kek", password, salt>>

\* Encryptor::encrypt: nonce || ciphertext || tag.  ChaCha20-Poly1305 is
\* taken as an ideal AEAD: only bytes that encrypt returned under a key open
\* under that key.  A sealed block keeps the key it was sealed under, the
\* plaintext, its length in bytes, and whether these are the bytes encrypt
\* returned (cut = FALSE) or other bytes: a proper prefix of them, or the
\* same number of bytes with one changed.
Encrypt(key, pt, ptLen) ==
    [key |-> key, pt |-> pt, len |-> NonceLen + ptLen + TagLen, cut |-> FALSE]

\* A decrypt that returns the plaintext without verifying the tag
DecryptUnverified(key, block) ==
    IF block.len < NonceLen THEN Err("Encryption") ELSE Ok(block.pt)

\* Encryptor::decrypt: too short, or the tag does not verify (other key,
\* truncated or changed block), or the plaintext.
Decrypt(key, block) ==
    IF block.len < NonceLen THEN Err("Encryption")
    ELSE IF block.cut \/ block.key # key THEN Err("Encryption")
    ELSE Ok(block.pt)

----------------------------------------------------------------------------
(* core/src/pack.rs: PackFile *)

\* compress_data / decompress_data (zlib): a frame that carries the length of
\* its payload, so that a slice which is not exactly one frame does not
\* decompress to a chunk.
CompressData(data) == <<Len(data)>> \o data
DecompressData(z) ==
    IF Len(z) >= 1 /\ z[1] = Len(z) - 1 THEN Ok(Tail(z)) ELSE Err("Other")

PackFileNew(pack_id) ==
    [header |-> [pack_id |-> pack_id, chunk_count |-> 0,
                 uncompressed_size |-> 0, compressed_size |-> 0],
     chunks |-> EmptyMap,
     data   |-> <<>>]

\* An add_chunk that records every chunk at the start of the data region
PackFileAddChunkAtZero(p, id, data) ==
    [header |-> p.header,
     chunks |-> Put(p.chunks, id,
                    [id |-> id, offset |-> 0,
                     length |-> Len(CompressData(data)),
                     uncompressed_length |-> Len(data)]),
     data   |-> p.data \o CompressData(data)]

\* PackFile::add_chunk
PackFileAddChunk(p, id, data) ==
    LET compressed == CompressData(data)
        chunk == [id |-> id, offset |-> Len(p.data),
                  length |-> Len(compressed),
                  uncompressed_length |-> Len(data)]
    IN [header |-> [p.header EXCEPT
                      !.chunk_count = @ + 1,
                      !.uncompressed_size = @ + Len(data),
                      !.compressed_size = @ + Len(compressed)],
        chunks |-> Put(p.chunks, id, chunk),
        data   |-> p.data \o compressed]

\* PackFile::get_chunk
PackFileGetChunk(p, id) ==
    IF id \notin DOMAIN p.chunks THEN Err("Other")
    ELSE LET chunk == p.chunks[id]
             start == chunk.offset
             end   == start + chunk.length
         IN IF end > Len(p.data) THEN Err("Other")
            ELSE DecompressData(Slice(p.data, start, end))

\* A pack that is never full
PackFileIsFullNever(p, max_size) == FALSE

\* PackFile::is_full
PackFileIsFull(p, max_size) == Len(p.data) >= max_size

\* bincode::serialize of the header and of the chunk directory: the header as
\* its four fields, the directory as one entry per chunk.
SerializeHeader(h) ==
    <<h.pack_id, h.chunk_count, h.uncompressed_size, h.compressed_size>>
DeserializeHeader(b) ==
    [pack_id |-> b[1], chunk_count |-> b[2],
     uncompressed_size |-> b[3], compressed_size |-> b[4]]
SerializeChunks(chunks) ==
    {<<id, chunks[id]>> : id \in DOMAIN chunks}
DeserializeChunks(b) ==
    [id \in {e[1] : e \in b} |-> (CHOOSE e \in b : e[1] = id)[2]]
HeaderDataLen(h)      == Len(SerializeHeader(h))
ChunksDataLen(chunks) == 1 + Cardinality(DOMAIN chunks)

\* The u32 written in front of the sealed header by write_to.
WrittenHeaderLen(p) == HeaderDataLen(p.header)
\* The u32 written in front of the sealed chunk directory by write_to.
WrittenChunksLen(p) == ChunksDataLen(p.chunks)

\* PackFile::write_to: [u32][sealed header][u32][sealed directory][sealed data]
WriteTo(p, key) ==
    <<WrittenHeaderLen(p),
      Encrypt(key, SerializeHeader(p.header), HeaderDataLen(p.header)),
      WrittenChunksLen(p),
      Encrypt(key, SerializeChunks(p.chunks), ChunksDataLen(p.chunks)),
      Encrypt(key, p.data, Len(p.data))>>

\* AsyncReadExt::read_exact of n bytes when `block` is what comes next in the
\* stream: the block itself when n is its length, otherwise n bytes that are
\* not one sealed block (a prefix of it, or it and part of what follows).
ReadExact(block, n) ==
    IF n = block.len THEN block ELSE [block EXCEPT !.len = n, !.cut = TRUE]

\* PackFile::read_from
ReadFrom(wire, key) ==
    LET header_len  == wire[1]
        header_data == Decrypt(key, ReadExact(wire[2], header_len))
    IN IF ~header_data.ok THEN header_data
       ELSE LET chunks_len  == wire[3]
                chunks_data == Decrypt(key, ReadExact(wire[4], chunks_len))
            IN IF ~chunks_data.ok THEN chunks_data
               ELSE LET decrypted_data == Decrypt(key, wire[5])
                    IN IF ~decrypted_data.ok THEN decrypted_data
                       ELSE Ok([header |-> DeserializeHeader(header_data.v),
                                chunks |-> DeserializeChunks(chunks_data.v),
                                data   |-> decrypted_data.v])

----------------------------------------------------------------------------
(* SpecPack: add_chunk*, then write_to, then read_from *)

MaxPackChunks == 3
NKeys         == 2

DataKeys   == 1..NKeys
ChunkDatas == {<<>>, <<1>>, <<2>>, <<1, 2>>}

PackAddChunk(data) ==
    /\ ~pfWire.some
    /\ Len(pfLog) < MaxPackChunks
    /\ pf' = PackFileAddChunk(pf, ChunkIdOf(data), data)
    /\ pfLog' = Append(pfLog, <<ChunkIdOf(data), data>>)
    /\ UNCHANGED <<pfWire, pfRead>>
    /\ UNCHANGED <<storeVars, repoVars, rng, bkVars, extVars>>

PackWrite(key) ==
    /\ ~pfWire.some
    /\ pfWire' = Some([key |-> key, bytes |-> WriteTo(pf, key)])
    /\ UNCHANGED <<pf, pfLog, pfRead>>
    /\ UNCHANGED <<storeVars, repoVars, rng, bkVars, extVars>>

PackRead(key) ==
    /\ pfWire.some
    /\ ~pfRead.some
    /\ pfRead' = Some([key |-> key, res |-> ReadFrom(pfWire.v.bytes, key)])
    /\ UNCHANGED <<pf, pfLog, pfWire>>
    /\ UNCHANGED <<storeVars, repoVars, rng, bkVars, extVars>>

PackInit ==
    /\ pf = PackFileNew(<<"pack", 0>>)
    /\ pfLog = <<>>
    /\ pfWire = None
    /\ pfRead = None

----------------------------------------------------------------------------
(* core/src/repository.rs: init, open, save_snapshot, load_snapshot *)

NSalts       == 2
MaxSessions  == 3
MaxSnapshots == 2

Passwords == {"pw", "wrong", "other"}
Salts     == 1..NSalts

\* RepoConfig::default (version 1, a random salt) and the KeyFile of init
RepoConfigDefault(salt) == [version |-> 1, salt |-> salt]
KeyFileOf(password, salt, data_key) ==
    [encrypted_key |->
         Encrypt(DeriveFromPassword(password, salt), data_key, 32),
     salt |-> salt]

\* An init without the early return
InitRejectsNever == FALSE

\* Repository::init, lines 84-91: the early return
InitRejects == dirs /\ config.some

\* Repository::init
RepoInit(password, salt, data_key) ==
    /\ Len(sessions) < MaxSessions
    /\ UNCHANGED <<packVars, bkVars, extVars>>
    /\ IF InitRejects
       THEN /\ lastOp' = [op |-> "init", password |-> password,
                          res |-> Err("RepositoryExists")]
            /\ UNCHANGED <<storeVars, sessions, rng>>
       ELSE /\ dirs' = TRUE
            /\ config' = Some(RepoConfigDefault(salt))
            /\ keys' = Put(keys, rng + 1, KeyFileOf(password, salt, data_key))
            /\ rng' = rng + 1
            /\ sessions' = Append(sessions, data_key)
            /\ lastOp' = [op |-> "init", password |-> password,
                          res |-> Ok(data_key)]
            /\ UNCHANGED <<packs, index, trees, snapshots>>

\* Repository::open, given the key file the enumeration of keys/ yields
\* first (None when keys/ is empty): every key file of keys/ parses.
OpenResult(password, first) ==
    IF ~dirs THEN Err("RepositoryNotFound")
    ELSE IF ~config.some THEN Err("Io")
    ELSE IF config.v.version # 1 THEN Err("InvalidFormatVersion")
    ELSE IF ~first.some THEN Err("InvalidPassword")
    ELSE LET key_file   == keys[first.v]
             master_key == DeriveFromPassword(password, key_file.salt)
             data_key   == Decrypt(master_key, key_file.encrypted_key)
         IN IF data_key.ok THEN Ok(data_key.v) ELSE Err("InvalidPassword")

\* The entries read_dir(keys/) can yield first.
FirstKeyEntries ==
    IF DOMAIN keys = {} THEN {None} ELSE {Some(k) : k \in DOMAIN keys}

RepoOpen(password) ==
    /\ Len(sessions) < MaxSessions
    /\ \E first \in FirstKeyEntries :
         LET res == OpenResult(password, first)
         IN /\ lastOp' = [op |-> "open", password |-> password, res |-> res]
            /\ sessions' = IF res.ok THEN Append(sessions, res.v) ELSE sessions
    /\ UNCHANGED <<storeVars, rng, packVars, bkVars, extVars>>

\* Snapshot::new (the fields the repository engine reads)
SnapshotNew(id, paths, tree) == [id |-> id, paths |-> paths, tree |-> tree]

\* Snapshot::serialize / deserialize and Tree::serialize / deserialize
\* (serde_json) under the session's Encryptor
SerializeJson(x) == <<"json", x>>
DeserializeJson(b) == b[2]
SealJson(key, x) == Encrypt(key, SerializeJson(x), 1)
OpenJson(key, block) ==
    LET d == Decrypt(key, block)
    IN IF d.ok THEN Ok(DeserializeJson(d.v)) ELSE d

\* Objects as they lie in the store: whole, or torn by a write that failed
\* after File::create.
Whole(x) == [complete |-> TRUE, v |-> x]
Torn     == [complete |-> FALSE]

\* Snapshot::deserialize / Tree::deserialize of a stored object: a torn
\* object does not decrypt.
OpenSealed(key, obj) ==
    IF obj.complete THEN OpenJson(key, obj.v) ELSE Err("Encryption")

\* Repository::save_snapshot by the session sid
RepoSaveSnapshot(sid, tree) ==
    /\ sid \in 1..Len(sessions)
    /\ Cardinality(DOMAIN snapshots) < MaxSnapshots
    /\ LET id == rng + 1
           snapshot == SnapshotNew(id, <<>>, tree)
       IN /\ snapshots' = Put(snapshots, id,
                              Whole(SealJson(sessions[sid], snapshot)))
          /\ lastOp' = [op |-> "save", sid |-> sid, res |-> Ok(snapshot)]
    /\ rng' = rng + 1
    /\ UNCHANGED <<dirs, config, keys, packs, index, trees, sessions>>
    /\ UNCHANGED <<packVars, bkVars, extVars>>

\* Repository::load_snapshot by the session sid
LoadSnapshot(key, id) ==
    IF id \notin DOMAIN snapshots THEN Err("Io")
    ELSE OpenSealed(key, snapshots[id])

RepoLoadSnapshot(sid, id) ==
    /\ sid \in 1..Len(sessions)
    /\ lastOp' = [op |-> "load", sid |-> sid, id |-> id,
                  res |-> LoadSnapshot(sessions[sid], id)]
    /\ UNCHANGED <<storeVars, sessions, rng, packVars, bkVars, extVars>>

StoreEmpty ==
    /\ config = None
    /\ keys = EmptyMap
    /\ packs = EmptyMap
    /\ index = EmptyMap
    /\ trees = EmptyMap
    /\ snapshots = EmptyMap

RepoSessInit ==
    /\ sessions = <<>>
    /\ lastOp = [op |-> "none"]

----------------------------------------------------------------------------
(* core/src/pack.rs: PackManager *)

PackManagerNew(max_pack_size) ==
    [current_pack |-> None, max_pack_size |-> max_pack_size,
     pack_counter |-> 0]

\* format!("pack-{:08x}", pack_counter)
FormatPackId(counter) == <<"pack", counter>>

\* PackManager::start_new_pack
StartNewPack(m) ==
    [m EXCEPT !.current_pack = Some(PackFileNew(FormatPackId(m.pack_counter))),
              !.pack_counter = @ + 1]

\* An add_chunk that drops the pack it has taken
PackManagerAddChunkLosing(m, id, data) ==
    [pm |-> [StartNewPack(m) EXCEPT !.current_pack =
                Some(PackFileAddChunk(@.v, id, data))],
     finished |-> None]

\* PackManager::add_chunk: the manager afterwards and the pack returned
PackManagerAddChunk(m, id, data) ==
    IF ~m.current_pack.some
       \/ PackFileIsFull(m.current_pack.v, m.max_pack_size)
    THEN LET started == StartNewPack(m)
         IN [pm |-> [started EXCEPT !.current_pack =
                        Some(PackFileAddChunk(started.current_pack.v, id, data))],
             finished |-> m.current_pack]
    ELSE [pm |-> [m EXCEPT !.current_pack =
                     Some(PackFileAddChunk(m.current_pack.v, id, data))],
          finished |-> None]

----------------------------------------------------------------------------
(* The source files of the backups, and core/src/chunker.rs *)

\* The files under the backed-up paths: path -> bytes and mode.  The order
\* of WalkOrder is the order in which WalkDir yields them.
D1  == <<"d1">>
D2  == <<"d2">>
D1A == <<"d1", "a">>
D1B == <<"d1", "b">>
D2B == <<"d2", "b">>
D2C == <<"d2", "s", "c">>

WalkOrder == <<D1A, D1B, D2B, D2C>>
SrcFiles  == {WalkOrder[k] : k \in 1..Len(WalkOrder)}
SrcBytes(f) ==
    CASE f = D1A -> <<1, 2, 1>>
      [] f = D1B -> <<2>>
      [] f = D2B -> <<3>>
      [] f = D2C -> <<1>>
SrcMode(f) == IF f = D1B THEN 384 ELSE 420     \* 0o600, 0o644

IsPrefix(p, f) == Len(p) <= Len(f) /\ SubSeq(f, 1, Len(p)) = p
PathExists(p)  == \E f \in SrcFiles : IsPrefix(p, f)
FileName(f)    == f[Len(f)]

\* The lists of paths a backup is asked for
PathLists == {<<>>, <<D1>>, <<D2>>, <<D1, D2>>, <<D1A>>, <<D2, <<"gone">>>>}

\* A chunker whose max_size is twice that of Chunker::new
ChunkerNewWide(avg_size) ==
    [min_size |-> avg_size \div 4, avg_size |-> avg_size,
     max_size |-> avg_size * 8]

\* Chunker::new
ChunkerNew(avg_size) ==
    [min_size |-> avg_size \div 4, avg_size |-> avg_size,
     max_size |-> avg_size * 4]

\* The cut of FastCDC (which chunk_data iterates, line 25) on the bytes not
\* yet chunked: the length of the next chunk.  All of `source` when it has
\* no more than min_size bytes; otherwise the first index from min_size on
\* at which the gear hash meets the mask (the strict mask below the
\* normalisation point avg_size, the loose mask from it on), and max_size
\* or all of `source` when there is none.  The gear hash is taken as a
\* judgement of the byte at the index: 3 meets both masks, 2 the loose one
\* only, every other byte none.
Cut(chunker, source) ==
    LET len       == Len(source)
        remaining == IF len > chunker.max_size THEN chunker.max_size ELSE len
        center    == IF len < chunker.avg_size THEN len ELSE chunker.avg_size
        cuts      == {k \in chunker.min_size..(remaining - 1) :
                        IF k < center THEN source[k + 1] = 3
                        ELSE source[k + 1] \in {2, 3}}
    IN IF len <= chunker.min_size THEN len
       ELSE IF cuts = {} THEN remaining
       ELSE CHOOSE k \in cuts : \A j \in cuts : k <= j

\* Chunker::chunk_data from `offset` on: the Chunk of every cut, with its
\* own copy of data[offset..offset + length]
RECURSIVE Chunks(_, _, _)
Chunks(chunker, data, offset) ==
    LET length == Cut(chunker, SubSeq(data, offset + 1, Len(data)))
    IN IF offset >= Len(data) THEN <<>>
       ELSE <<[offset |-> offset, length |-> length,
               data |-> Slice(data, offset, offset + length)]>>
            \o Chunks(chunker, data, offset + length)

\* The chunks of a file's bytes in the backup, with a chunker scaled down
\* to min_size = avg_size = max_size, so that every chunk but the last has
\* max_size bytes whatever the bytes are.
max_size == 1
ChunkData(bytes) ==
    LET chunks == Chunks([min_size |-> max_size, avg_size |-> max_size,
                          max_size |-> max_size], bytes, 0)
    IN [k \in 1..Len(chunks) |-> chunks[k].data]

----------------------------------------------------------------------------
(* cli/src/commands/backup.rs: BackupCommand::run *)

MaxBackups  == 2
MaxFaults   == 1
MaxPackSize == 4
SaveEvery   == 100
FileMode    == 420      \* 0o644

Min(a, b) == IF a <= b THEN a ELSE b

\* The TreeNode built by the scan for the file f, lines 108-121.  `src` is
\* not a field of the program: it records which file the node was built for.
ScanNode(f) ==
    [name |-> FileName(f), mode |-> FileMode, size |-> Len(SrcBytes(f)),
     chunks |-> <<>>, src |-> f]

\* The scan of one path: WalkDir, regular files only
RECURSIVE WalkFrom(_, _)
WalkFrom(path, k) ==
    IF k > Len(WalkOrder) THEN <<>>
    ELSE (IF IsPrefix(path, WalkOrder[k]) THEN <<ScanNode(WalkOrder[k])>>
          ELSE <<>>) \o WalkFrom(path, k + 1)

\* The scan loop, lines 82-126: an error at the first path that does not
\* exist, else the nodes of all paths in order.
RECURSIVE ScanFrom(_, _)
ScanFrom(paths, k) ==
    IF k > Len(paths) THEN <<>>
    ELSE WalkFrom(paths[k], 1) \o ScanFrom(paths, k + 1)
Scan(paths) ==
    IF \E k \in 1..Len(paths) : ~PathExists(paths[k]) THEN Err("Other")
    ELSE Ok(ScanFrom(paths, 1))

\* paths.iter().zip(tree_nodes.into_iter()): the number of loop iterations
NumPairs(paths, tree_nodes) == Min(Len(paths), Len(tree_nodes))

\* find_file_for_node: base_path.join(node_name), if it exists
FindFileForNode(node_name, base_path) ==
    LET file_path == Append(base_path, node_name)
    IN IF PathExists(file_path) THEN Ok(file_path) ELSE Err("Other")

\* fs::read(file_path) in process_file: a directory cannot be read
ReadFile(file_path) ==
    IF file_path \in SrcFiles THEN Ok(SrcBytes(file_path)) ELSE Err("Io")

\* A has_chunk that finds no chunk (no deduplication)
HasChunkNever(chunk_id) == FALSE

\* Repository::has_chunk
HasChunk(chunk_id) == chunk_id \in DOMAIN index

\* The ChunkRef pushed by process_file, lines 267-271
ChunkRefOf(data) == [id |-> ChunkIdOf(data), offset |-> 0, length |-> Len(data)]

\* Repository::save_pack: the object written at data/<pack_id>.pack
StoredPack(pack, key) == Whole(WriteTo(pack, key))

\* Repository::save_chunk_location: the ChunkLocation written at index/<hex>
ChunkLocationOf(pack, chunk_id) ==
    [pack_id |-> pack.header.pack_id,
     offset  |-> pack.chunks[chunk_id].offset,
     length  |-> pack.chunks[chunk_id].length]

BkIdle ==
    [key |-> 0, paths |-> <<>>, tree_nodes |-> <<>>, i |-> 0,
     chunks |-> <<>>, j |-> 0, chunk_refs |-> <<>>, processed_nodes |-> <<>>,
     tree_id |-> None, clean |-> TRUE, repeat |-> FALSE, failed |-> {}]
SvIdle == [pack |-> PackFileNew(FormatPackId(0)), todo |-> {}, ret |-> "none"]

StoreNow ==
    [index |-> index, packs |-> packs, trees |-> trees,
     snapshots |-> snapshots]

\* BackupCommand::run up to the processing loop: open, the paths check, the
\* scan, dry_run, and the PackManager of the session.
BeginBackup(password, paths, dry_run) ==
    /\ pc = "idle"
    /\ nsess < MaxBackups
    /\ \E first \in FirstKeyEntries :
         LET opened  == OpenResult(password, first)
             scanned == Scan(paths)
         IN IF ~opened.ok
            THEN /\ out' = [cmd |-> "backup", phase |-> "done", res |-> opened]
                 /\ UNCHANGED <<pc, bk, pm, nsess, base>>
            ELSE IF paths = <<>> \/ ~scanned.ok
            THEN /\ out' = [cmd |-> "backup", phase |-> "done", res |-> Err("Other")]
                 /\ UNCHANGED <<pc, bk, pm, nsess, base>>
            ELSE IF dry_run
            THEN /\ out' = [cmd |-> "backup", phase |-> "dry run", res |-> Ok(0)]
                 /\ UNCHANGED <<pc, bk, pm, nsess, base>>
            ELSE /\ out' = [cmd |-> "backup", phase |-> "running", res |-> Ok(0)]
                 /\ pc' = "file"
                 /\ bk' = [BkIdle EXCEPT !.key = opened.v, !.paths = paths,
                                         !.tree_nodes = scanned.v,
                                         !.repeat = paths \in done]
                 /\ pm' = PackManagerNew(MaxPackSize)
                 /\ nsess' = nsess + 1
                 /\ base' = StoreNow
    /\ UNCHANGED <<packVars, storeVars, repoVars, rng, sv, faults, done, extVars>>

\* The file the loop's iteration i is about: paths[i] joined with the name
\* of tree_nodes[i] (0-based i).
LoopFile ==
    FindFileForNode(bk.tree_nodes[bk.i + 1].name, bk.paths[bk.i + 1])

InLoop == bk.i < NumPairs(bk.paths, bk.tree_nodes)

\* Lines 148-151 and 250-251: find the file, read it, chunk it. A node whose
\* file is not found is skipped without a message; a file that cannot be
\* read is a failed file (the warn! of line 159); bk.failed records the
\* scanned files whose process_file returned an error.
StartFile ==
    /\ pc = "file"
    /\ InLoop
    /\ LET file_data == IF LoopFile.ok THEN ReadFile(LoopFile.v) ELSE LoopFile
       IN IF file_data.ok
          THEN /\ pc' = "chunk"
               /\ bk' = [bk EXCEPT !.chunks = ChunkData(file_data.v),
                                   !.j = 1, !.chunk_refs = <<>>]
          ELSE /\ pc' = "periodic"
               /\ bk' = [bk EXCEPT
                           !.clean = @ /\ ~LoopFile.ok,
                           !.failed = IF LoopFile.ok
                                      THEN @ \cup {bk.tree_nodes[bk.i + 1].src}
                                      ELSE @]
    /\ UNCHANGED <<packVars, storeVars, repoVars, rng, pm, sv, out, nsess,
                   faults, base, done, extVars>>

\* fs::read fails on a file that exists (an I/O error)
ReadFails ==
    /\ pc = "file"
    /\ InLoop
    /\ LoopFile.ok
    /\ faults < MaxFaults
    /\ faults' = faults + 1
    /\ pc' = "periodic"
    /\ bk' = [bk EXCEPT !.clean = FALSE,
                        !.failed = @ \cup {bk.tree_nodes[bk.i + 1].src}]
    /\ UNCHANGED <<packVars, storeVars, repoVars, rng, pm, sv, out, nsess,
                   base, done, extVars>>

PushRef(b) ==
    [b EXCEPT !.chunk_refs = Append(@, ChunkRefOf(b.chunks[b.j])),
              !.j = @ + 1]

\* One iteration of the loop of process_file, lines 254-272, up to the call
\* of save_pack_and_index if there is one; past the last chunk, lines
\* 153-157: the node gets its chunks and is pushed.
ChunkStep ==
    /\ pc = "chunk"
    /\ IF bk.j > Len(bk.chunks)
       THEN /\ bk' = [bk EXCEPT !.processed_nodes = Append(@,
                         [bk.tree_nodes[bk.i + 1] EXCEPT
                             !.chunks = bk.chunk_refs])]
            /\ pc' = "periodic"
            /\ UNCHANGED <<pm, sv>>
       ELSE LET data     == bk.chunks[bk.j]
                chunk_id == ChunkIdOf(data)
                added    == PackManagerAddChunk(pm, chunk_id, data)
            IN IF HasChunk(chunk_id)
               THEN /\ bk' = PushRef(bk)
                    /\ UNCHANGED <<pc, pm, sv>>
               ELSE /\ pm' = added.pm
                    /\ IF added.finished.some
                       THEN /\ sv' = [pack |-> added.finished.v,
                                      todo |-> DOMAIN added.finished.v.chunks,
                                      ret |-> "chunk"]
                            /\ pc' = "savepack"
                            /\ UNCHANGED bk
                       ELSE /\ bk' = PushRef(bk)
                            /\ UNCHANGED <<pc, sv>>
    /\ UNCHANGED <<packVars, storeVars, repoVars, rng, out, nsess, faults,
                   base, done, extVars>>

\* Lines 166-175: every SaveEvery-th iteration the open pack is finished
\* and saved; then the next iteration.
Periodic ==
    /\ pc = "periodic"
    /\ IF bk.i % SaveEvery = 0 /\ pm.current_pack.some
       THEN /\ pm' = [pm EXCEPT !.current_pack = None]
            /\ sv' = [pack |-> pm.current_pack.v,
                      todo |-> DOMAIN pm.current_pack.v.chunks,
                      ret |-> "next"]
            /\ pc' = "savepack"
            /\ UNCHANGED bk
       ELSE /\ bk' = [bk EXCEPT !.i = @ + 1]
            /\ pc' = "file"
            /\ UNCHANGED <<pm, sv>>
    /\ UNCHANGED <<packVars, storeVars, repoVars, rng, out, nsess, faults,
                   base, done, extVars>>

\* Lines 178-183: after the loop the open pack is finished and saved.
FinalPack ==
    /\ pc = "file"
    /\ ~InLoop
    /\ IF pm.current_pack.some
       THEN /\ pm' = [pm EXCEPT !.current_pack = None]
            /\ sv' = [pack |-> pm.current_pack.v,
                      todo |-> DOMAIN pm.current_pack.v.chunks,
                      ret |-> "tree"]
            /\ pc' = "savepack"
       ELSE /\ pc' = "tree"
            /\ UNCHANGED <<pm, sv>>
    /\ UNCHANGED <<packVars, storeVars, repoVars, rng, bk, out, nsess, faults,
                   base, done, extVars>>

\* Where save_pack_and_index returns to, with Ok or with Err: into
\* process_file (which pushes the chunk's ref, or fails the file), into the
\* loop (which warns) or to the end of the loop (which warns).
AfterSave(ok) ==
    LET b == [bk EXCEPT !.clean = @ /\ ok]
    IN CASE sv.ret = "chunk" ->
              IF ok THEN [pc |-> "chunk", bk |-> PushRef(b)]
              ELSE [pc |-> "periodic",
                    bk |-> [b EXCEPT !.failed =
                              @ \cup {bk.tree_nodes[bk.i + 1].src}]]
         [] sv.ret = "next" -> [pc |-> "file", bk |-> [b EXCEPT !.i = @ + 1]]
         [] sv.ret = "tree" -> [pc |-> "tree", bk |-> b]

\* save_pack_and_index, line 283: repo.save_pack(pack).await? succeeded
SavePack ==
    /\ pc = "savepack"
    /\ packs' = Put(packs, sv.pack.header.pack_id, StoredPack(sv.pack, bk.key))
    /\ pc' = "saveidx"
    /\ UNCHANGED <<packVars, dirs, config, keys, index, trees, snapshots,
                   repoVars, rng, bk, pm, sv, out, nsess, faults, base, done,
                   extVars>>

\* A save_pack_and_index that goes on to the index after a failed save_pack
SavePackErrIgnored == [pc |-> "saveidx", bk |-> bk]

\* save_pack_and_index, line 283: the `?` on an Err of save_pack returns the
\* error before any index entry is written.
SavePackErr == AfterSave(FALSE)

\* save_pack fails: at File::create (nothing is written) or in write_to
\* (the file is there, torn).
SavePackFails(torn) ==
    /\ pc = "savepack"
    /\ faults < MaxFaults
    /\ faults' = faults + 1
    /\ packs' = IF torn THEN Put(packs, sv.pack.header.pack_id, Torn)
                ELSE packs
    /\ pc' = SavePackErr.pc
    /\ bk' = SavePackErr.bk
    /\ UNCHANGED <<packVars, dirs, config, keys, index, trees, snapshots,
                   repoVars, rng, pm, sv, out, nsess, base, done,
                   extVars>>

\* save_pack_and_index, lines 286-293: the next save_chunk_location, in the
\* order the HashMap yields the chunks; line 296 when none is left.
SaveIdx ==
    /\ pc = "saveidx"
    /\ IF sv.todo = {}
       THEN /\ pc' = AfterSave(TRUE).pc
            /\ bk' = AfterSave(TRUE).bk
            /\ UNCHANGED <<index, sv>>
       ELSE \E chunk_id \in sv.todo :
              /\ index' = Put(index, chunk_id,
                              Whole(ChunkLocationOf(sv.pack, chunk_id)))
              /\ sv' = [sv EXCEPT !.todo = @ \ {chunk_id}]
              /\ UNCHANGED <<pc, bk>>
    /\ UNCHANGED <<packVars, dirs, config, keys, packs, trees, snapshots,
                   repoVars, rng, pm, out, nsess, faults, base, done,
                   extVars>>

\* save_chunk_location fails: nothing written, or the index file torn
SaveIdxFails(torn) ==
    /\ pc = "saveidx"
    /\ faults < MaxFaults
    /\ faults' = faults + 1
    /\ \E chunk_id \in sv.todo :
         index' = IF torn THEN Put(index, chunk_id, Torn) ELSE index
    /\ pc' = AfterSave(FALSE).pc
    /\ bk' = AfterSave(FALSE).bk
    /\ UNCHANGED <<packVars, dirs, config, keys, packs, trees, snapshots,
                   repoVars, rng, pm, sv, out, nsess, base, done,
                   extVars>>

\* Tree::serialize under a fresh nonce; the tree ID of save_tree, line 260,
\* is the hash of these sealed bytes.
SealTree(key, nonce, tree) == [nonce |-> nonce] @@ SealJson(key, tree)

\* Lines 187-193: repo.save_tree(&tree).await? succeeded
SaveTree ==
    /\ pc = "tree"
    /\ LET tree    == [nodes |-> bk.processed_nodes]
           data    == SealTree(bk.key, rng + 1, tree)
           tree_id == ChunkIdOf(data)
       IN /\ trees' = Put(trees, tree_id, Whole(data))
          /\ bk' = [bk EXCEPT !.tree_id = Some(tree_id)]
    /\ rng' = rng + 1
    /\ pc' = "snap"
    /\ UNCHANGED <<packVars, dirs, config, keys, packs, index, snapshots,
                   repoVars, pm, sv, out, nsess, faults, base, done,
                   extVars>>

\* A run that goes on to the snapshot after a failed save_tree
SaveTreeFailsIgnored(torn) ==
    /\ pc = "tree"
    /\ faults < MaxFaults
    /\ faults' = faults + 1
    /\ LET tree_id == ChunkIdOf(SealJson(bk.key, [nodes |-> bk.processed_nodes]))
       IN /\ trees' = IF torn THEN Put(trees, tree_id, Torn) ELSE trees
          /\ bk' = [bk EXCEPT !.tree_id = Some(tree_id)]
    /\ rng' = rng + 1
    /\ pc' = "snap"
    /\ UNCHANGED <<packVars, dirs, config, keys, packs, index, snapshots,
                   repoVars, pm, sv, out, nsess, base, done, extVars>>

\* save_tree fails: the `?` of line 193 ends the command with the error
SaveTreeFails(torn) ==
    /\ pc = "tree"
    /\ faults < MaxFaults
    /\ faults' = faults + 1
    /\ LET tree    == [nodes |-> bk.processed_nodes]
           data    == SealTree(bk.key, rng + 1, tree)
           tree_id == ChunkIdOf(data)
       IN trees' = IF torn THEN Put(trees, tree_id, Torn) ELSE trees
    /\ rng' = rng + 1
    /\ pc' = "idle"
    /\ out' = [cmd |-> "backup", phase |-> "done", res |-> Err("Io")]
    /\ UNCHANGED <<packVars, dirs, config, keys, packs, index, snapshots,
                   repoVars, bk, pm, sv, nsess, base, done, extVars>>

\* Lines 195-224: the snapshot gets a fresh uuid, is saved, and the command
\* returns Ok.
SaveSnapshot ==
    /\ pc = "snap"
    /\ LET id       == rng + 1
           snapshot == SnapshotNew(id, bk.paths, bk.tree_id.v)
       IN /\ snapshots' = Put(snapshots, id,
                              Whole(SealJson(bk.key, snapshot)))
          /\ out' = [cmd |-> "backup", phase |-> "done", res |-> Ok(id)]
    /\ rng' = rng + 1
    /\ pc' = "idle"
    /\ done' = IF bk.clean THEN done \cup {bk.paths} ELSE done
    /\ UNCHANGED <<packVars, dirs, config, keys, packs, index, trees,
                   repoVars, bk, pm, sv, nsess, faults, base,
                   extVars>>

\* save_snapshot fails: the `?` of line 209 ends the command with the error
SaveSnapshotFails(torn) ==
    /\ pc = "snap"
    /\ faults < MaxFaults
    /\ faults' = faults + 1
    /\ snapshots' = IF torn THEN Put(snapshots, rng + 1, Torn) ELSE snapshots
    /\ rng' = rng + 1
    /\ pc' = "idle"
    /\ out' = [cmd |-> "backup", phase |-> "done", res |-> Err("Io")]
    /\ UNCHANGED <<packVars, dirs, config, keys, packs, index, trees,
                   repoVars, bk, pm, sv, nsess, base, done, extVars>>

\* The process is killed between two steps of a backup.
Crash ==
    /\ pc # "idle"
    /\ faults < MaxFaults
    /\ faults' = faults + 1
    /\ pc' = "idle"
    /\ out' = [cmd |-> "backup", phase |-> "killed", res |-> Err("Other")]
    /\ UNCHANGED <<packVars, storeVars, repoVars, rng, bk, pm, sv, nsess,
                   base, done, extVars>>

----------------------------------------------------------------------------
(* core/src/repository.rs: load_tree, load_chunk_location, load_pack,     *)
(* load_chunk                                                              *)

LoadTree(key, tree_id) ==
    IF tree_id \notin DOMAIN trees THEN Err("Io")
    ELSE OpenSealed(key, trees[tree_id])

LoadChunkLocation(chunk_id) ==
    IF chunk_id \notin DOMAIN index THEN Err("Io")
    ELSE IF ~index[chunk_id].complete THEN Err("Serialization")
    ELSE Ok(index[chunk_id].v)

LoadPack(key, pack_id) ==
    IF pack_id \notin DOMAIN packs THEN Err("Io")
    ELSE IF ~packs[pack_id].complete THEN Err("Other")
    ELSE ReadFrom(packs[pack_id].v, key)

LoadChunk(key, chunk_id) ==
    LET location == LoadChunkLocation(chunk_id)
    IN IF ~location.ok THEN location
       ELSE LET pack == LoadPack(key, location.v.pack_id)
            IN IF ~pack.ok THEN pack
               ELSE PackFileGetChunk(pack.v, chunk_id)

----------------------------------------------------------------------------
(* cli/src/commands/restore.rs *)

\* restore_file, lines 122-128: the file's bytes from its chunks, or the
\* first error of load_chunk
RECURSIVE FileDataFrom(_, _, _)
FileDataFrom(key, chunk_refs, k) ==
    IF k > Len(chunk_refs) THEN Ok(<<>>)
    ELSE LET chunk_data == LoadChunk(key, chunk_refs[k].id)
             rest       == FileDataFrom(key, chunk_refs, k + 1)
         IN IF ~chunk_data.ok THEN chunk_data
            ELSE IF ~rest.ok THEN rest
            ELSE Ok(chunk_data.v \o rest.v)

\* The loop of RestoreCommand::run, lines 77-92, from node k on: the target
\* directory and the two counters.
RECURSIVE RestoreNodes(_, _, _, _)
RestoreNodes(key, nodes, k, acc) ==
    IF k > Len(nodes) THEN acc
    ELSE LET node      == nodes[k]
             file_data == FileDataFrom(key, node.chunks, 1)
         IN RestoreNodes(key, nodes, k + 1,
              IF file_data.ok
              THEN [acc EXCEPT
                      !.target = Put(@, node.name,
                                     [bytes |-> file_data.v, mode |-> node.mode]),
                      !.restored = @ + 1]
              ELSE [acc EXCEPT !.failed = @ + 1])

\* RestoreCommand::run into an empty target, with no path filter
RestoreRun(password, first, snapshot_id) ==
    LET opened == OpenResult(password, first)
        empty  == [target |-> EmptyMap, restored |-> 0, failed |-> 0]
    IN IF ~opened.ok THEN [res |-> opened] @@ empty
       ELSE LET snapshot == LoadSnapshot(opened.v, snapshot_id)
            IN IF ~snapshot.ok THEN [res |-> snapshot] @@ empty
               ELSE LET tree == LoadTree(opened.v, snapshot.v.tree)
                    IN IF ~tree.ok THEN [res |-> tree] @@ empty
                       ELSE [res |-> Ok(0)]
                            @@ RestoreNodes(opened.v, tree.v.nodes, 1, empty)

Restore(password, snapshot_id) ==
    /\ pc = "idle"
    /\ \E first \in FirstKeyEntries :
         out' = [cmd |-> "restore", phase |-> "done",
                 snapshot_id |-> snapshot_id]
                @@ RestoreRun(password, first, snapshot_id)
    /\ UNCHANGED <<packVars, storeVars, repoVars, rng, pc, bk, pm, sv, nsess,
                   faults, base, done, extVars>>

----------------------------------------------------------------------------
(* backends/src/retry.rs: RetryConfig, the Retryable classifier and         *)
(* retry_with_backoff.  Strings are sequences of characters, so that        *)
(* str::contains is a search and not a lookup.                              *)

MaxAttempts == 3

\* str::contains
Contains(s, needle) ==
    \E i \in 1..(Len(s) - Len(needle) + 1) :
        SubSeq(s, i, i + Len(needle) - 1) = needle

\* The message patterns of is_retryable, lines 86-92
TransientPatterns ==
    {<<"t", "i", "m", "e", "o", "u", "t">>,
     <<"r", "a", "t", "e", " ", "l", "i", "m", "i", "t">>,
     <<"t", "h", "r", "o", "t", "t", "l", "e">>,
     <<"t", "e", "m", "p", "o", "r", "a", "r", "i", "l", "y", " ",
       "u", "n", "a", "v", "a", "i", "l", "a", "b", "l", "e">>,
     <<"t", "r", "y", " ", "a", "g", "a", "i", "n">>,
     <<"5", "0", "3">>,
     <<"4", "2", "9">>}

\* A ghostsnap_core::Error: its variant and, where it carries one, its text
Error(kind, msg) == [kind |-> kind, msg |-> msg]

\* A classifier that retries every error
IsRetryableAlways(error) == TRUE

\* A classifier that retries no error
IsRetryableNever(error) == FALSE

\* impl Retryable for ghostsnap_core::Error
IsRetryable(error) ==
    CASE error.kind = "Io" -> TRUE
      [] error.kind = "Backend" ->
            \E pattern \in TransientPatterns : Contains(error.msg, pattern)
      [] OTHER -> FALSE

\* Duration::as_millis of a duration given in microseconds
AsMillis(us) == us \div 1000

\* `attempt as i32` of a u32: the values above i32::MAX wrap to negative
I32Max == 2147483647
AsI32(n) == IF n <= I32Max THEN n ELSE (n - I32Max) - I32Max - 2

RECURSIVE Pow(_, _)
Pow(b, e) == IF e = 0 THEN 1 ELSE b * Pow(b, e - 1)

\* initial_backoff.as_millis() as f64 * backoff_multiplier.powi(attempt),
\* as the fraction num/den; the multiplier is the fraction m.num/m.den
\* (the fractions used are exact in f64).
BaseDuration(cfg, attempt) ==
    LET e == AsI32(attempt)
        m == cfg.backoff_multiplier
    IN IF e >= 0
       THEN [num |-> AsMillis(cfg.initial_backoff) * Pow(m.num, e),
             den |-> Pow(m.den, e)]
       ELSE [num |-> AsMillis(cfg.initial_backoff) * Pow(m.den, 0 - e),
             den |-> Pow(m.num, 0 - e)]

\* base_duration.min(max_backoff.as_millis() as f64) as u64, line 60
Cap(b, max_ms) ==
    IF b.num <= max_ms * b.den THEN b.num \div b.den ELSE max_ms

\* RetryConfig::backoff_duration, in milliseconds; jitter_ms is the value
\* gen_range(0..=duration_ms / 4) draws.
BackoffDuration(cfg, attempt, jitter_ms) ==
    LET duration_ms == Cap(BaseDuration(cfg, attempt),
                           AsMillis(cfg.max_backoff))
    IN IF cfg.jitter THEN duration_ms + jitter_ms ELSE duration_ms

\* RetryConfig::quick, with the backoffs in microseconds
RetryConfigQuick ==
    [max_attempts |-> 3, initial_backoff |-> 50000, max_backoff |-> 5000000,
     backoff_multiplier |-> [num |-> 2, den |-> 1], jitter |-> TRUE]

\* The values the model draws from: the configurations (backoffs in
\* microseconds, multipliers 1, 1.5 and 2) and what one invocation of the
\* operation can yield (Ok, every variant of Error, and Backend errors
\* with the texts "503", "timeout" and "denied")
RetryInputs ==
    [configs |->
        [max_attempts : 0..MaxAttempts, initial_backoff : {1000, 1500},
         max_backoff : {2500, 9000},
         backoff_multiplier : {[num |-> 1, den |-> 1], [num |-> 3, den |-> 2],
                               [num |-> 2, den |-> 1]},
         jitter : BOOLEAN],
     outcomes |->
        {Ok(42)}
        \cup {Err(Error(kind, <<>>)) : kind \in
                {"Io", "Serialization", "Encryption", "RepositoryNotFound",
                 "RepositoryExists", "InvalidFormatVersion", "CorruptedPack",
                 "SnapshotNotFound", "InvalidPassword", "ChunkNotFound",
                 "LockConflict", "Other"}}
        \cup {Err(Error("Backend", msg)) : msg \in
                {<<"5", "0", "3">>, <<"t", "i", "m", "e", "o", "u", "t">>,
                 <<"d", "e", "n", "i", "e", "d">>}}]

\* retry_with_backoff at its entry, line 117
RetryBegin(cfg) ==
    [pc |-> "loop", config |-> cfg, attempt |-> 0, last_error |-> None,
     outs |-> <<>>, sleeps |-> <<>>, res |-> Ok(0)]

\* One iteration of the loop, lines 119-157: the operation is invoked and
\* yields `outcome`; outs and sleeps record the invocations and the sleeps.
RetryStep(r, outcome, jitter_ms) ==
    LET invoked == [r EXCEPT !.outs = Append(@, outcome)]
    IN IF outcome.ok \/ ~IsRetryable(outcome.err)
       THEN [invoked EXCEPT !.pc = "returned", !.res = outcome]
       ELSE [invoked EXCEPT
               !.last_error = Some(outcome.err),
               !.sleeps = IF r.attempt < r.config.max_attempts - 1
                          THEN Append(@, BackoffDuration(r.config, r.attempt,
                                                         jitter_ms))
                          ELSE @,
               !.attempt = @ + 1]

\* The loop is left, lines 160-168: last_error.expect(..) panics on None
RetryExit(r) ==
    IF r.last_error.some
    THEN [r EXCEPT !.pc = "returned", !.res = Err(r.last_error.v)]
    ELSE [r EXCEPT !.pc = "panicked"]

\* retry_with_backoff run to its end on an operation whose i-th invocation
\* yields op[i], every jitter drawn being 0
RetryWithBackoff(cfg, op) ==
    LET RECURSIVE Run(_)
        Run(r) ==
            IF r.pc # "loop" THEN r
            ELSE IF r.attempt >= r.config.max_attempts THEN RetryExit(r)
            ELSE Run(RetryStep(r, op[Len(r.outs) + 1], 0))
    IN Run(RetryBegin(cfg))

\* retry_with_backoff is called
RetryCall(cfg) ==
    /\ rt.pc = "idle"
    /\ rt' = RetryBegin(cfg)
    /\ UNCHANGED <<packVars, storeVars, repoVars, rng, bkVars, be, im, ini>>

\* The next invocation of the operation and what follows it
RetryAttempt(outcome) ==
    /\ rt.pc = "loop"
    /\ rt.attempt < rt.config.max_attempts
    /\ \E jitter_ms \in 0..(BackoffDuration([rt.config EXCEPT !.jitter = FALSE],
                                            rt.attempt, 0) \div 4) :
         rt' = RetryStep(rt, outcome, jitter_ms)
    /\ UNCHANGED <<packVars, storeVars, repoVars, rng, bkVars, be, im, ini>>

\* The loop has run max_attempts times
RetryExhausted ==
    /\ rt.pc = "loop"
    /\ rt.attempt >= rt.config.max_attempts
    /\ rt' = RetryExit(rt)
    /\ UNCHANGED <<packVars, storeVars, repoVars, rng, bkVars, be, im, ini>>

\* RetryConfig::backoff_duration is called
BackoffCall(cfg, attempt) ==
    /\ rt.pc = "idle"
    /\ \E jitter_ms \in 0..(BackoffDuration([cfg EXCEPT !.jitter = FALSE],
                                            attempt, 0) \div 4) :
         rt' = [pc |-> "backoff", config |-> cfg, attempt |-> attempt,
                jitter_ms |-> jitter_ms,
                duration_ms |-> BackoffDuration(cfg, attempt, jitter_ms)]
    /\ UNCHANGED <<packVars, storeVars, repoVars, rng, bkVars, be, im, ini>>

----------------------------------------------------------------------------
(* backends/src/local.rs: LocalBackend over a directory.  A file system     *)
(* path is the sequence of its components below base_path; an object path  *)
(* is a string.                                                             *)

MaxTransient == 2

\* The texts of the messages LocalBackend formats, and of the io::Error of
\* ENOENT and of EAGAIN
LocalText ==
    [read   |-> <<"F", "a", "i", "l", "e", "d", " ", "t", "o", " ", "r", "e",
                  "a", "d", " ">>,
     stat   |-> <<"F", "a", "i", "l", "e", "d", " ", "t", "o", " ", "s", "t",
                  "a", "t", " ">>,
     delete |-> <<"F", "a", "i", "l", "e", "d", " ", "t", "o", " ", "d", "e",
                  "l", "e", "t", "e", " ">>,
     temp   |-> <<"F", "a", "i", "l", "e", "d", " ", "t", "o", " ", "w", "r",
                  "i", "t", "e", " ", "t", "e", "m", "p", " ", "f", "i", "l",
                  "e", ":", " ">>,
     rename |-> <<"F", "a", "i", "l", "e", "d", " ", "t", "o", " ", "r", "e",
                  "n", "a", "m", "e", " ", "t", "e", "m", "p", " ", "f", "i",
                  "l", "e", ":", " ">>,
     colon  |-> <<":", " ">>,
     enoent |-> <<"N", "o", " ", "s", "u", "c", "h", " ", "f", "i", "l", "e",
                  " ", "o", "r", " ", "d", "i", "r", "e", "c", "t", "o", "r",
                  "y", " ", "(", "o", "s", " ", "e", "r", "r", "o", "r", " ",
                  "2", ")">>,
     eagain |-> <<"R", "e", "s", "o", "u", "r", "c", "e", " ", "t", "e", "m",
                  "p", "o", "r", "a", "r", "i", "l", "y", " ", "u", "n", "a",
                  "v", "a", "i", "l", "a", "b", "l", "e", " ", "(", "o", "s",
                  " ", "e", "r", "r", "o", "r", " ", "1", "1", ")">>]

\* The values the model draws from: the object paths d/503 and d/s/a that
\* are written, the paths asked about (these and the directory d), the
\* prefixes listed and the bytes written
BackendInputs ==
    [objects  |-> {<<"d", "/", "5", "0", "3">>, <<"d", "/", "s", "/", "a">>},
     paths    |-> {<<"d", "/", "5", "0", "3">>, <<"d", "/", "s", "/", "a">>,
                   <<"d">>},
     prefixes |-> {<<>>, <<"d">>, <<"d", "/">>, <<"d", "/", "5">>,
                   <<"d", "/", "s">>, <<"x">>},
     contents |-> {<<1>>}]

\* Path::components of a relative path: the names between the separators
Components(s) ==
    LET RECURSIVE SplitFrom(_, _, _)
        SplitFrom(i, cur, acc) ==
            LET closed == IF cur = <<>> THEN acc ELSE Append(acc, cur)
            IN IF i > Len(s) THEN closed
               ELSE IF s[i] = "/" THEN SplitFrom(i + 1, <<>>, closed)
               ELSE SplitFrom(i + 1, Append(cur, s[i]), acc)
    IN SplitFrom(1, <<>>, <<>>)

\* LocalBackend::full_path: base_path.join(path); an absolute path replaces
\* base_path, and names nothing below it.
FullPath(path) ==
    IF path # <<>> /\ path[1] = "/" THEN None ELSE Some(Components(path))

\* str::starts_with, and Path::starts_with on sequences of components
StartsWith(s, prefix) ==
    Len(prefix) <= Len(s) /\ SubSeq(s, 1, Len(prefix)) = prefix

\* What the file system holds at a full path: the directory is the record
\* of its regular files (with their bytes) and its directories.
Metadata(fs, full) ==
    IF ~full.some THEN "none"
    ELSE IF full.v \in DOMAIN fs.files THEN "file"
    ELSE IF full.v = <<>> \/ full.v \in fs.dirs THEN "dir"
    ELSE "none"

\* Path::with_extension("tmp"): the extension of the file name, if it has
\* one, is replaced.
WithExtensionTmp(cs) ==
    LET name == cs[Len(cs)]
        dots == {i \in 2..Len(name) : name[i] = "."}
        stem == IF dots = {} THEN name
                ELSE SubSeq(name, 1,
                            (CHOOSE i \in dots : \A j \in dots : j <= i) - 1)
    IN [cs EXCEPT ![Len(cs)] = stem \o <<".", "t", "m", "p">>]

Remove(f, k) == [y \in DOMAIN f \ {k} |-> f[y]]

\* LocalBackend::atomic_write, one call: `fail` is the step that fails
\* ("write", "sync", "rename") or "none".  The result and the directory
\* it leaves (after a failed rename the temp file is removed).
AtomicWrite(fs, path, data, fail) ==
    LET full_path == FullPath(path).v
        temp_path == WithExtensionTmp(full_path)
        parents   == {SubSeq(full_path, 1, k) : k \in 1..(Len(full_path) - 1)}
        made      == [fs EXCEPT !.dirs = @ \cup parents]
    IN CASE fail = "none" ->
              [res |-> Ok(0),
               fs  |-> [made EXCEPT
                          !.files = Put(Remove(@, temp_path), full_path, data)]]
         [] fail = "write" ->
              [res |-> Err(Error("Backend",
                                 LocalText.temp \o LocalText.eagain)),
               fs  |-> made]
         [] fail = "sync" ->
              [res |-> Err(Error("Io", LocalText.eagain)),
               fs  |-> [made EXCEPT !.files = Put(@, temp_path, data)]]
         [] fail = "rename" ->
              [res |-> Err(Error("Backend",
                                 LocalText.rename \o LocalText.eagain)),
               fs  |-> made]

\* What the file system answers to fs::read, as the closure of
\* LocalBackend::read maps it
RawRead(fs, path) ==
    IF Metadata(fs, FullPath(path)) = "file"
    THEN Ok(fs.files[FullPath(path).v])
    ELSE Err(Error("Backend", LocalText.read \o path \o LocalText.colon
                                  \o LocalText.enoent))

\* What one call of the closure of LocalBackend::delete does
RawDelete(fs, path) ==
    LET full_path == FullPath(path)
    IN CASE Metadata(fs, full_path) = "file" ->
              [fs EXCEPT !.files = Remove(@, full_path.v)]
         [] Metadata(fs, full_path) = "dir" ->
              [fs EXCEPT
                 !.files = [x \in {y \in DOMAIN @ : ~StartsWith(y, full_path.v)}
                              |-> @[x]],
                 !.dirs = {x \in @ : ~StartsWith(x, full_path.v)}]
         [] OTHER -> fs

\* The operation handed to retry_with_backoff when the file system fails
\* transiently on the first `fails` calls: the outcome of its i-th call
Flaky(fails, failure, outcome) ==
    [i \in 1..RetryConfigQuick.max_attempts |->
        IF i <= fails THEN failure ELSE outcome]

\* Each action records the blob operation in be.op: what was asked, on how
\* many first calls the file system failed transiently (fails), what the
\* operation returned (res), how often it went to the file system (calls),
\* and what it returns on a file system that does not fail (clean).

\* LocalBackend::exists: Path::exists is false when the metadata call fails
LocalExists(path, fails) ==
    LET clean == Ok(Metadata(be, FullPath(path)) # "none")
    IN /\ be' = [be EXCEPT !.op =
                   [name |-> "exists", path |-> path, fails |-> fails,
                    res |-> IF fails > 0 THEN Ok(FALSE) ELSE clean,
                    calls |-> 1, clean |-> clean]]
       /\ UNCHANGED <<packVars, storeVars, repoVars, rng, bkVars, rt, im, ini>>

\* LocalBackend::read: fs::read under retry_with_backoff
LocalRead(path, fails) ==
    LET failure == Err(Error("Backend", LocalText.read \o path
                                \o LocalText.colon \o LocalText.eagain))
        clean   == RawRead(be, path)
        r       == RetryWithBackoff(RetryConfigQuick,
                                    Flaky(fails, failure, clean))
    IN /\ be' = [be EXCEPT !.op =
                   [name |-> "read", path |-> path, fails |-> fails,
                    res |-> r.res, calls |-> Len(r.outs), clean |-> clean]]
       /\ UNCHANGED <<packVars, storeVars, repoVars, rng, bkVars, rt, im, ini>>

\* LocalBackend::write: atomic_write under retry_with_backoff; the first
\* `fails` calls fail at the step `fail`.
LocalWrite(path, data, fails, fail) ==
    LET failure == AtomicWrite(be, path, data, fail).res
        r       == RetryWithBackoff(RetryConfigQuick,
                                    Flaky(fails, failure, Ok(0)))
        last    == IF r.res.ok THEN "none" ELSE fail
    IN /\ fails > 0 <=> fail # "none"
       /\ be' = [AtomicWrite(be, path, data, last).fs EXCEPT !.op =
                   [name |-> "write", path |-> path, fails |-> fails,
                    res |-> r.res, calls |-> Len(r.outs), clean |-> Ok(0)]]
       /\ UNCHANGED <<packVars, storeVars, repoVars, rng, bkVars, rt, im, ini>>

\* LocalBackend::delete: remove_file / remove_dir_all under
\* retry_with_backoff
LocalDelete(path, fails) ==
    LET failure == Err(Error("Backend", LocalText.delete \o path
                                \o LocalText.colon \o LocalText.eagain))
        r       == RetryWithBackoff(RetryConfigQuick,
                                    Flaky(fails, failure, Ok(0)))
        after   == IF r.res.ok THEN RawDelete(be, path) ELSE be
    IN /\ Metadata(be, FullPath(path)) # "none" \/ fails = 0
       /\ be' = [after EXCEPT !.op =
                   [name |-> "delete", path |-> path, fails |-> fails,
                    res |-> r.res, calls |-> Len(r.outs), clean |-> Ok(0)]]
       /\ UNCHANGED <<packVars, storeVars, repoVars, rng, bkVars, rt, im, ini>>

\* The strings LocalBackend::list returns for a directory that can be
\* read: "{prefix}/{name}" for every name read_dir yields
ListResult(fs, prefix) ==
    LET full_path == FullPath(prefix)
        entries   == {x \in DOMAIN fs.files \cup fs.dirs :
                         /\ Len(x) = Len(full_path.v) + 1
                         /\ StartsWith(x, full_path.v)}
    IN IF Metadata(fs, full_path) = "dir"
       THEN {prefix \o <<"/">> \o e[Len(e)] : e \in entries}
       ELSE {}

\* LocalBackend::list: read_dir's error leaves through `?` as Error::Io
LocalList(prefix, fails) ==
    LET clean == Ok(ListResult(be, prefix))
        res   == IF fails > 0 /\ Metadata(be, FullPath(prefix)) = "dir"
                 THEN Err(Error("Io", LocalText.eagain)) ELSE clean
    IN /\ be' = [be EXCEPT !.op =
                   [name |-> "list", path |-> prefix, fails |-> fails,
                    res |-> res, calls |-> 1, clean |-> clean]]
       /\ UNCHANGED <<packVars, storeVars, repoVars, rng, bkVars, rt, im, ini>>

\* LocalBackend::stat
LocalStat(path, fails) ==
    LET full_path == FullPath(path)
        failed(e) == Err(Error("Backend", LocalText.stat \o path
                                  \o LocalText.colon \o e))
        clean == CASE Metadata(be, full_path) = "file" ->
                        Ok(Len(be.files[full_path.v]))
                   [] Metadata(be, full_path) = "dir" -> Ok(0)
                   [] OTHER -> failed(LocalText.enoent)
        res   == IF fails > 0 THEN failed(LocalText.eagain) ELSE clean
    IN /\ be' = [be EXCEPT !.op =
                   [name |-> "stat", path |-> path, fails |-> fails,
                    res |-> res, calls |-> 1, clean |-> clean]]
       /\ UNCHANGED <<packVars, storeVars, repoVars, rng, bkVars, rt, im, ini>>

----------------------------------------------------------------------------
(* core/src/index.rs: Index and IndexManager.  HashMaps are functions;     *)
(* HashMap::extend lets the entries of `other` replace those of `self`.    *)

\* Index::new
IndexNew == [chunks |-> EmptyMap, packs |-> EmptyMap]

\* A merge in which the entries of `self` stay
IndexMergeKeepingOld(self, other) ==
    [chunks |-> self.chunks @@ other.chunks,
     packs  |-> self.packs @@ other.packs]

\* Index::merge
IndexMerge(self, other) ==
    [chunks |-> other.chunks @@ self.chunks,
     packs  |-> other.packs @@ self.packs]

\* IndexManager::add_index
IndexManagerAddIndex(m, idx) ==
    [indices      |-> Append(m.indices, idx),
     master_index |-> IndexMerge(m.master_index, idx)]

\* IndexManager::has_chunk and get_chunk
IndexManagerHasChunk(m, id) == id \in DOMAIN m.master_index.chunks
IndexManagerGetChunk(m, id) ==
    IF id \in DOMAIN m.master_index.chunks
    THEN Some(m.master_index.chunks[id]) ELSE None

\* IndexManager::compact: the manager afterwards and the index returned
IndexManagerCompact(m) ==
    LET RECURSIVE Merged(_, _)
        Merged(compacted, k) ==
            IF k > Len(m.indices) THEN compacted
            ELSE Merged(IndexMerge(compacted, m.indices[k]), k + 1)
        compacted == Merged(IndexNew, 1)
    IN [m   |-> [indices |-> <<compacted>>, master_index |-> compacted],
        ret |-> compacted]

\* The calls of SpecIndex: add_index of the indexes over two chunks and two
\* packs, and compact
MaxIndexes == 3

IndexInputs ==
    LET ChunkIds == {ChunkIdOf(<<1>>), ChunkIdOf(<<2>>)}
        PackIds  == {FormatPackId(0), FormatPackId(1)}
        Metadata_(id, pack_id) ==
            [id |-> id, pack_id |-> pack_id, offset |-> 0, length |-> 2,
             uncompressed_length |-> 1]
        PackInfo(pack_id) == [id |-> pack_id, size |-> 2, chunk_count |-> 1]
    IN {[chunks |-> [id \in ids |-> Metadata_(id, where[id])],
         packs  |-> [pack_id \in {where[id] : id \in ids} |-> PackInfo(pack_id)]] :
          ids \in SUBSET ChunkIds, where \in [ChunkIds -> PackIds]}

ImAddIndex(idx) ==
    /\ Len(im.added) < MaxIndexes
    /\ im' = [m |-> IndexManagerAddIndex(im.m, idx),
              added |-> Append(im.added, idx), op |-> "add_index",
              ret |-> IndexNew]
    /\ UNCHANGED <<packVars, storeVars, repoVars, rng, bkVars, rt, be, ini>>

ImCompact ==
    /\ im' = [m |-> IndexManagerCompact(im.m).m, added |-> im.added,
              op |-> "compact", ret |-> IndexManagerCompact(im.m).ret]
    /\ UNCHANGED <<packVars, storeVars, repoVars, rng, bkVars, rt, be, ini>>

----------------------------------------------------------------------------
(* The specifications *)

BkInit ==
    /\ pc = "idle"
    /\ bk = BkIdle
    /\ pm = PackManagerNew(MaxPackSize)
    /\ sv = SvIdle
    /\ out = [cmd |-> "none", phase |-> "done", res |-> Ok(0)]
    /\ nsess = 0
    /\ faults = 0
    /\ base = [index |-> EmptyMap, packs |-> EmptyMap, trees |-> EmptyMap,
               snapshots |-> EmptyMap]
    /\ done = {}
    /\ rt = [pc |-> "idle"]
    /\ be = [files |-> EmptyMap, dirs |-> {}, op |-> [name |-> "none"]]
    /\ im = [m |-> [indices |-> <<>>, master_index |-> IndexNew],
             added |-> <<>>, op |-> "new", ret |-> IndexNew]
    /\ ini = [pc |-> "idle", subdirs |-> {}]

\* SpecPack
InitPack ==
    /\ PackInit
    /\ dirs = FALSE
    /\ StoreEmpty
    /\ RepoSessInit
    /\ rng = 0
    /\ BkInit

NextPack ==
    \/ \E data \in ChunkDatas : PackAddChunk(data)
    \/ \E key \in DataKeys : PackWrite(key)
    \/ \E key \in DataKeys : PackRead(key)

SpecPack == InitPack /\ [][NextPack]_vars

\* SpecRepo: the path is missing or an empty directory
InitRepo ==
    /\ PackInit
    /\ dirs \in BOOLEAN
    /\ StoreEmpty
    /\ RepoSessInit
    /\ rng = 0
    /\ BkInit

TreeIds == {ChunkIdOf(<<1>>), ChunkIdOf(<<2>>)}

NextRepo ==
    \/ \E password \in Passwords, salt \in Salts, data_key \in DataKeys :
         RepoInit(password, salt, data_key)
    \/ \E password \in Passwords : RepoOpen(password)
    \/ \E sid \in 1..MaxSessions, tree \in TreeIds : RepoSaveSnapshot(sid, tree)
    \/ \E sid \in 1..MaxSessions, id \in DOMAIN snapshots \cup {0} :
         RepoLoadSnapshot(sid, id)

SpecRepo == InitRepo /\ [][NextRepo]_vars

\* SpecKeys: open on a repository whose keys/ holds one or two key files
\* sealing the same data key, each under its own password and salt (the
\* first is the one init wrote, with the salt of config)
InitKeys ==
    /\ PackInit
    /\ dirs = TRUE
    /\ \E ids \in {{1}, {1, 2}}, data_key \in DataKeys :
         \E pws \in [ids -> Passwords], salts \in [ids -> Salts] :
            /\ keys = [k \in ids |-> KeyFileOf(pws[k], salts[k], data_key)]
            /\ config = Some(RepoConfigDefault(
                             salts[CHOOSE k \in ids : \A j \in ids : k <= j]))
    /\ packs = EmptyMap /\ index = EmptyMap
    /\ trees = EmptyMap /\ snapshots = EmptyMap
    /\ RepoSessInit
    /\ rng = 0
    /\ BkInit

NextKeys == \E password \in Passwords : RepoOpen(password)

SpecKeys == InitKeys /\ [][NextKeys]_vars

\* SpecRetry: calls of retry_with_backoff and of backoff_duration
MaxAttemptNo == 4

NextRetry ==
    \/ \E cfg \in RetryInputs.configs : RetryCall(cfg)
    \/ \E outcome \in RetryInputs.outcomes : RetryAttempt(outcome)
    \/ RetryExhausted
    \/ \E cfg \in RetryInputs.configs, attempt \in 0..MaxAttemptNo :
         BackoffCall(cfg, attempt)

SpecRetry == InitPack /\ [][NextRetry]_vars

\* SpecBackend: the blob operations of a LocalBackend on an empty directory
NextBackend ==
    \/ \E path \in BackendInputs.paths, fails \in 0..MaxTransient :
         LocalExists(path, fails)
    \/ \E path \in BackendInputs.paths, fails \in 0..MaxTransient :
         LocalRead(path, fails)
    \/ \E path \in BackendInputs.objects, data \in BackendInputs.contents,
          fails \in 0..MaxTransient,
          fail \in {"none", "write", "sync", "rename"} :
         LocalWrite(path, data, fails, fail)
    \/ \E path \in BackendInputs.paths, fails \in 0..MaxTransient :
         LocalDelete(path, fails)
    \/ \E prefix \in BackendInputs.prefixes, fails \in 0..MaxTransient :
         LocalList(prefix, fails)
    \/ \E path \in BackendInputs.paths, fails \in 0..MaxTransient :
         LocalStat(path, fails)

SpecBackend == InitPack /\ [][NextBackend]_vars

\* SpecCrypto: encrypt of a message, the sealed bytes truncated to n bytes
\* or with one byte changed on their way, and decrypt under any key
CryptoEncrypt(key, m) ==
    /\ lastOp.op = "none"
    /\ lastOp' = [op |-> "encrypt", key |-> key, m |-> m,
                  block |-> Encrypt(key, m, Len(m)), whole |-> TRUE]
    /\ UNCHANGED <<storeVars, sessions, rng, packVars, bkVars, extVars>>

CryptoDamage(kind, n) ==
    /\ lastOp.op = "encrypt"
    /\ n < lastOp.block.len
    /\ lastOp' = [lastOp EXCEPT
                    !.op = "damage",
                    !.whole = FALSE,
                    !.block = IF kind = "truncate" THEN ReadExact(@, n)
                              ELSE [@ EXCEPT !.cut = TRUE]]
    /\ UNCHANGED <<storeVars, sessions, rng, packVars, bkVars, extVars>>

CryptoDecrypt(key) ==
    /\ lastOp.op \in {"encrypt", "damage"}
    /\ lastOp' = [lastOp EXCEPT !.op = "decrypt"]
                 @@ [with |-> key, res |-> Decrypt(key, lastOp.block)]
    /\ UNCHANGED <<storeVars, sessions, rng, packVars, bkVars, extVars>>

NextCrypto ==
    \/ \E key \in DataKeys, m \in ChunkDatas : CryptoEncrypt(key, m)
    \/ \E kind \in {"truncate", "change"},
          n \in 0..(NonceLen + TagLen + 1) : CryptoDamage(kind, n)
    \/ \E key \in DataKeys : CryptoDecrypt(key)

SpecCrypto == InitPack /\ [][NextCrypto]_vars

\* SpecChunker: chunk_data of the inputs made of up to MaxSegments
\* segments: single bytes of each gear class and a run of eight bytes that
\* offer no cut
MaxSegments == 4

ChunkerInputs ==
    LET segments == {<<1>>, <<2>>, <<3>>, <<1, 1, 1, 1, 1, 1, 1, 1>>}
    IN {Concat(ss) : ss \in UNION {[1..n -> segments] : n \in 0..MaxSegments}}

ChunkerChunkData(avg_size, data) ==
    /\ lastOp.op = "none"
    /\ lastOp' = [op |-> "chunk_data", avg_size |-> avg_size, data |-> data,
                  chunks |-> Chunks(ChunkerNew(avg_size), data, 0),
                  again  |-> Chunks(ChunkerNew(avg_size), data, 0)]
    /\ UNCHANGED <<storeVars, sessions, rng, packVars, bkVars, extVars>>

NextChunker ==
    \E avg_size \in {4, 5}, data \in ChunkerInputs :
        ChunkerChunkData(avg_size, data)

SpecChunker == InitPack /\ [][NextChunker]_vars

\* SpecManager: add_chunk and finish_current_pack on a PackManager.  pfLog
\* keeps what was added, lastOp the last call, what it returned and every
\* pack handed to the caller so far.
MaxAdds == 4

Returned == IF lastOp.op = "none" THEN <<>> ELSE lastOp.returned

ManagerAddChunk(data) ==
    /\ Len(pfLog) < MaxAdds
    /\ LET added == PackManagerAddChunk(pm, ChunkIdOf(data), data)
       IN /\ pm' = added.pm
          /\ lastOp' = [op |-> "add_chunk", id |-> ChunkIdOf(data),
                        ret |-> added.finished,
                        returned |-> IF added.finished.some
                                     THEN Append(Returned, added.finished.v)
                                     ELSE Returned]
    /\ pfLog' = Append(pfLog, <<ChunkIdOf(data), data>>)
    /\ UNCHANGED <<pf, pfWire, pfRead, storeVars, sessions, rng, pc, bk, sv,
                   out, nsess, faults, base, done, extVars>>

\* PackManager::finish_current_pack
ManagerFinish ==
    /\ pm' = [pm EXCEPT !.current_pack = None]
    /\ lastOp' = [op |-> "finish", ret |-> pm.current_pack,
                  returned |-> IF pm.current_pack.some
                               THEN Append(Returned, pm.current_pack.v)
                               ELSE Returned]
    /\ UNCHANGED <<packVars, storeVars, sessions, rng, pc, bk, sv, out,
                   nsess, faults, base, done, extVars>>

NextManager ==
    \/ \E data \in ChunkDatas : ManagerAddChunk(data)
    \/ ManagerFinish

SpecManager == InitPack /\ [][NextManager]_vars

\* SpecWrites: two calls of LocalBackend::write that run concurrently, one
\* system call of one of them at a time.  Here a file of be.files is the
\* record of its inode number and its bytes, and be.op holds the two tasks
\* (position in atomic_write, the descriptor fs::write holds, the attempt
\* of retry_with_backoff, the result), the number of inodes made and the
\* temp paths whose spawned remove_file has not run yet.
WritesBegin(path1, data1, path2, data2) ==
    /\ be.op.name = "none"
    /\ LET Task(path, data) ==
               [path |-> path, data |-> data, pc |-> "mkdir", fd |-> 0,
                attempt |-> 0, res |-> Ok(0)]
       IN be' = [be EXCEPT !.op =
                   [name |-> "writes",
                    tasks |-> <<Task(path1, data1), Task(path2, data2)>>,
                    inodes |-> 0, cleanups |-> {}]]
    /\ UNCHANGED <<packVars, storeVars, repoVars, rng, bkVars, rt, im, ini>>

\* The next system call of the task k: create_dir_all (line 79), the
\* File::create and the write_all of fs::write (line 86), the open before
\* sync_all (lines 92-96), rename (line 100).  A step that fails ends the
\* attempt, and retry_with_backoff starts the next one if the error is
\* retryable and attempts are left.
WritesStep(k) ==
    /\ be.op.name = "writes"
    /\ be.op.tasks[k].pc # "done"
    /\ LET t         == be.op.tasks[k]
           full_path == FullPath(t.path).v
           temp_path == WithExtensionTmp(full_path)
           parents   == {SubSeq(full_path, 1, n) : n \in 1..(Len(full_path) - 1)}
           Goes(to)  == [be EXCEPT !.op.tasks[k].pc = to]
           Fails(b, error) ==
               IF IsRetryable(error)
                  /\ t.attempt + 1 < RetryConfigQuick.max_attempts
               THEN [b EXCEPT !.op.tasks[k].pc = "mkdir",
                              !.op.tasks[k].attempt = @ + 1]
               ELSE [b EXCEPT !.op.tasks[k].pc = "done",
                              !.op.tasks[k].res = Err(error)]
       IN be' =
            CASE t.pc = "mkdir" ->
                   [Goes("create") EXCEPT !.dirs = @ \cup parents]
              [] t.pc = "create" ->
                   IF temp_path \in DOMAIN be.files
                   THEN [Goes("write") EXCEPT
                           !.files[temp_path].bytes = <<>>,
                           !.op.tasks[k].fd = be.files[temp_path].ino]
                   ELSE [Goes("write") EXCEPT
                           !.files = Put(@, temp_path,
                                         [ino |-> be.op.inodes + 1,
                                          bytes |-> <<>>]),
                           !.op.inodes = @ + 1,
                           !.op.tasks[k].fd = be.op.inodes + 1]
              [] t.pc = "write" ->
                   [Goes("sync") EXCEPT !.files =
                      [f \in DOMAIN @ |->
                         IF @[f].ino = t.fd
                         THEN [@[f] EXCEPT !.bytes =
                                 t.data \o SubSeq(@, Len(t.data) + 1, Len(@))]
                         ELSE @[f]]]
              [] t.pc = "sync" ->
                   IF temp_path \in DOMAIN be.files THEN Goes("rename")
                   ELSE Fails(be, Error("Io", LocalText.enoent))
              [] t.pc = "rename" ->
                   IF temp_path \in DOMAIN be.files
                   THEN [Goes("done") EXCEPT
                           !.files = Put(Remove(@, temp_path), full_path,
                                         be.files[temp_path])]
                   ELSE Fails([be EXCEPT !.op.cleanups = @ \cup {temp_path}],
                              Error("Backend",
                                    LocalText.rename \o LocalText.enoent))
    /\ UNCHANGED <<packVars, storeVars, repoVars, rng, bkVars, rt, im, ini>>

\* The task spawned after a failed rename (lines 103-106) runs
WritesCleanup(temp_path) ==
    /\ be.op.name = "writes"
    /\ temp_path \in be.op.cleanups
    /\ be' = [be EXCEPT
                !.files = IF temp_path \in DOMAIN @ THEN Remove(@, temp_path)
                          ELSE @,
                !.op.cleanups = @ \ {temp_path}]
    /\ UNCHANGED <<packVars, storeVars, repoVars, rng, bkVars, rt, im, ini>>

NextWrites ==
    \/ \E path1, path2 \in {<<"a", ".", "p">>, <<"a", ".", "i">>},
          data1, data2 \in {<<1, 2>>, <<3>>} :
         WritesBegin(path1, data1, path2, data2)
    \/ \E k \in {1, 2} : WritesStep(k)
    \/ \E temp_path \in {<<<<"a", ".", "t", "m", "p">>>>} :
         WritesCleanup(temp_path)

SpecWrites == InitPack /\ [][NextWrites]_vars

\* SpecInit: Repository::init taken one file-system call at a time, with an
\* interruption (a crash, or an I/O error returned by `?`) possible after any
\* of them, and Repository::open between the calls of init.

\* Lines 93-98: the directories init creates, in order ("" is the path)
InitDirs == <<"", "data", "index", "snapshots", "keys", "locks">>

\* Lines 82-91: the entry of init and its early return
InitBegin(password, salt, data_key) ==
    /\ ini.pc = "idle"
    /\ Len(sessions) < MaxSessions
    /\ IF InitRejects
       THEN /\ lastOp' = [op |-> "init", password |-> password,
                          res |-> Err("RepositoryExists")]
            /\ UNCHANGED ini
       ELSE /\ ini' = [pc |-> "mkdir", subdirs |-> ini.subdirs, made |-> 0,
                       password |-> password, salt |-> salt,
                       data_key |-> data_key]
            /\ lastOp' = [op |-> "init", password |-> password,
                          res |-> Err("Pending")]
    /\ UNCHANGED <<storeVars, sessions, rng, packVars, bkVars, rt, be, im>>

\* Lines 93-123: the next file-system call of the init in progress
InitStep ==
    /\ ini.pc \in {"mkdir", "config", "key"}
    /\ CASE ini.pc = "mkdir" ->
              \* lines 93-98: create_dir_all, one directory per call
              LET dir == InitDirs[ini.made + 1]
              IN /\ dirs' = TRUE
                 /\ ini' = [ini EXCEPT
                              !.subdirs = IF dir = "" THEN @ ELSE @ \cup {dir},
                              !.made = @ + 1,
                              !.pc = IF ini.made + 1 = Len(InitDirs)
                                     THEN "config" ELSE "mkdir"]
                 /\ UNCHANGED <<config, keys, rng, sessions, lastOp>>
         [] ini.pc = "config" ->
              \* lines 118-119: the config object is written first
              /\ config' = Some(RepoConfigDefault(ini.salt))
              /\ ini' = [ini EXCEPT !.pc = "key"]
              /\ UNCHANGED <<dirs, keys, rng, sessions, lastOp>>
         [] ini.pc = "key" ->
              \* lines 121-130: the key file is written last, under a fresh
              \* uuid, and the session is returned
              /\ keys' = Put(keys, rng + 1,
                             KeyFileOf(ini.password, ini.salt, ini.data_key))
              /\ rng' = rng + 1
              /\ sessions' = Append(sessions, ini.data_key)
              /\ lastOp' = [op |-> "init", password |-> ini.password,
                            res |-> Ok(ini.data_key)]
              /\ ini' = [pc |-> "idle", subdirs |-> ini.subdirs]
              /\ UNCHANGED <<dirs, config>>
    /\ UNCHANGED <<packs, index, trees, snapshots, packVars, bkVars, rt, be, im>>

\* The init in progress ends here: the process is killed, or the next call
\* fails and `?` returns its error.  What the earlier calls wrote stays.
InitInterrupt ==
    /\ ini.pc \in {"mkdir", "config", "key"}
    /\ ini' = [pc |-> "idle", subdirs |-> ini.subdirs]
    /\ lastOp' = [op |-> "init", password |-> ini.password,
                  res |-> Err("Interrupted")]
    /\ UNCHANGED <<storeVars, sessions, rng, packVars, bkVars, rt, be, im>>

\* Repository::open, called while no init is in progress
InitOpen(password) ==
    /\ ini.pc = "idle"
    /\ RepoOpen(password)

NextInit ==
    \/ \E password \in Passwords, salt \in Salts, data_key \in DataKeys :
         InitBegin(password, salt, data_key)
    \/ InitStep
    \/ InitInterrupt
    \/ \E password \in Passwords : InitOpen(password)

SpecInit == InitRepo /\ [][NextInit]_vars

\* SpecIndex: calls of add_index and compact on a new IndexManager
NextIndex ==
    \/ \E idx \in IndexInputs : ImAddIndex(idx)
    \/ ImCompact

SpecIndex == InitPack /\ [][NextIndex]_vars

\* Spec: a repository that init("pw") created, and nothing backed up yet
Init ==
    /\ PackInit
    /\ dirs = TRUE
    /\ config = Some(RepoConfigDefault(1))
    /\ keys = (1 :> KeyFileOf("pw", 1, 1))
    /\ packs = EmptyMap
    /\ index = EmptyMap
    /\ trees = EmptyMap
    /\ snapshots = EmptyMap
    /\ RepoSessInit
    /\ rng = 1
    /\ BkInit

Next ==
    \/ \E password \in {"pw", "wrong"}, paths \in PathLists,
          dry_run \in BOOLEAN : BeginBackup(password, paths, dry_run)
    \/ StartFile
    \/ ReadFails
    \/ ChunkStep
    \/ Periodic
    \/ FinalPack
    \/ SavePack
    \/ \E torn \in BOOLEAN : SavePackFails(torn)
    \/ SaveIdx
    \/ \E torn \in BOOLEAN : SaveIdxFails(torn)
    \/ SaveTree
    \/ \E torn \in BOOLEAN : SaveTreeFails(torn)
    \/ SaveSnapshot
    \/ \E torn \in BOOLEAN : SaveSnapshotFails(torn)
    \/ Crash
    \/ \E snapshot_id \in DOMAIN snapshots : Restore("pw", snapshot_id)

Spec == Init /\ [][Next]_vars

----------------------------------------------------------------------------
(* The claims *)

\* The data key of the repository of Spec
RepoKey == OpenResult("pw", Some(1)).v

\* What a whole stored pack object holds: its chunk directory
StoredDirectory(obj) == DeserializeChunks(obj.v[4].pt)

\* The chunk of `chunk_id` is stored and reachable: a whole index entry
\* that names a whole pack object whose directory holds the chunk.
ChunkStored(chunk_id) ==
    /\ chunk_id \in DOMAIN index
    /\ index[chunk_id].complete
    /\ index[chunk_id].v.pack_id \in DOMAIN packs
    /\ packs[index[chunk_id].v.pack_id].complete
    /\ chunk_id \in DOMAIN StoredDirectory(packs[index[chunk_id].v.pack_id])

\* C1: every snapshot in snapshots/ has its tree in data/, and every
\* ChunkRef of that tree has an index entry naming a pack in data/ whose
\* directory contains the chunk, in every reachable state, failures
\* included.
C1_SnapshotsReferenceStoredObjects ==
    \A id \in DOMAIN snapshots :
        snapshots[id].complete =>
            LET snapshot == OpenSealed(RepoKey, snapshots[id]).v
            IN /\ snapshot.tree \in DOMAIN trees
               /\ trees[snapshot.tree].complete
               /\ LET nodes == OpenSealed(RepoKey, trees[snapshot.tree]).v.nodes
                  IN \A n \in 1..Len(nodes) :
                       \A r \in 1..Len(nodes[n].chunks) :
                           ChunkStored(nodes[n].chunks[r].id)

C3_RestoreIsIdentity ==
    (faults = 0 /\ out.cmd = "restore" /\ snapshots[out.snapshot_id].complete) =>
        LET snapshot == OpenSealed(RepoKey, snapshots[out.snapshot_id]).v
            nodes    == OpenSealed(RepoKey, trees[snapshot.tree]).v.nodes
        IN \A k \in 1..Len(nodes) :
             LET f == nodes[k].src
             IN /\ FileName(f) \in DOMAIN out.target
                /\ out.target[FileName(f)].bytes = SrcBytes(f)
                /\ out.target[FileName(f)].mode = SrcMode(f)

Distinct(log) ==
    \A a, b \in 1..Len(log) : a # b => log[a][1] # log[b][1]

\* C4: distinct chunks added to a pack, written with write_to and read back
\* with read_from under the same key: read_from succeeds and get_chunk
\* returns the bytes that were added, for every chunk.
C4_PackRoundTrip ==
    (pfRead.some /\ pfRead.v.key = pfWire.v.key /\ Distinct(pfLog)) =>
        /\ pfRead.v.res.ok
        /\ \A k \in 1..Len(pfLog) :
             PackFileGetChunk(pfRead.v.res.v, pfLog[k][1]) = Ok(pfLog[k][2])

\* C5: no two saved packs get the same PackID: save_pack never writes to a
\* path data/<pack_id>.pack that already holds a pack (stated for the runs
\* in which no operation fails and no backup is killed).
C5_PackIdsUnique ==
    [][faults' = 0 =>
         \A p \in DOMAIN packs' :
             p \in DOMAIN packs => packs'[p] = packs[p]]_vars

\* C6: index entries are write-once: a written index/<hex(chunk_id)> is
\* never rewritten with a different {pack_id, offset, length} (stated for
\* the runs in which no operation fails and no backup is killed).
C6_IndexWriteOnce ==
    [][faults' = 0 =>
         \A c \in DOMAIN index :
             index[c].complete => index'[c] = index[c]]_vars

\* C7: a backup in which no per-file operation fails processes every
\* regular file the scan found, in scan order, and commits one node per
\* file whose chunks reconstruct that file.
C7_EveryScannedFileProcessed ==
    (pc = "idle" /\ out.cmd = "backup" /\ out.phase = "done" /\ out.res.ok
     /\ bk.clean) =>
        /\ Len(bk.processed_nodes) = Len(bk.tree_nodes)
        /\ \A k \in 1..Len(bk.processed_nodes) :
             LET node == bk.processed_nodes[k]
             IN /\ node.src = bk.tree_nodes[k].src
                /\ Concat([r \in 1..Len(node.chunks) |-> node.chunks[r].id[2]])
                     = SrcBytes(node.src)

NewKeys(now, before) == DOMAIN now \ DOMAIN before
Kept(now, before) == \A k \in DOMAIN before : k \in DOMAIN now /\ now[k] = before[k]

\* C8: a backup of a file set whose earlier backup succeeded without any
\* failure creates no index object, changes no index or pack object,
\* creates at most one pack object, and adds only its tree and its
\* snapshot.
C8_RepeatedBackupAddsOnlyTreeAndSnapshot ==
    bk.repeat =>
        /\ index = base.index
        /\ Kept(packs, base.packs)
        /\ Cardinality(NewKeys(packs, base.packs)) <= 1
        /\ Kept(trees, base.trees)
        /\ Kept(snapshots, base.snapshots)
        /\ Cardinality(NewKeys(trees, base.trees)) <= 1
        /\ Cardinality(NewKeys(snapshots, base.snapshots)) <= 1

\* C8's case: the second backup of files that have chunks has committed.
C8_Witness ==
    /\ pc = "idle"
    /\ bk.repeat
    /\ out.cmd = "backup" /\ out.phase = "done" /\ out.res.ok
    /\ \E k \in 1..Len(bk.processed_nodes) : bk.processed_nodes[k].chunks # <<>>
    /\ Cardinality(NewKeys(snapshots, base.snapshots)) = 1
    /\ Cardinality(NewKeys(trees, base.trees)) = 1

\* Whether open(password) succeeds on the path as it is
CanOpen(password) == \E first \in FirstKeyEntries : OpenResult(password, first).ok

\* C9: init on a path whose config exists fails with RepositoryExists and
\* leaves every object of the repository unchanged, so that a password that
\* opened it still opens it.
C9_InitOnExistingRepository ==
    [][(config.some /\ lastOp' # lastOp /\ lastOp'.op = "init") =>
          /\ lastOp'.res = Err("RepositoryExists")
          /\ UNCHANGED storeVars
          /\ \A password \in Passwords :
               CanOpen(password) => CanOpen(password)']_vars

\* C9's case: init was rejected on a repository that holds objects.
C9_Witness ==
    /\ lastOp.op = "init"
    /\ lastOp.res = Err("RepositoryExists")
    /\ snapshots # EmptyMap
    /\ CanOpen("pw")

\* The password given to the init that created the repository (the key file
\* is sealed under the key derived from it)
InitPassword == keys[CHOOSE k \in DOMAIN keys : TRUE].encrypted_key.key[2]

\* C10: after init(path, pw), open(path, pw) succeeds with the data key of
\* the init session, open(path, pw') fails with InvalidPassword for every
\* other pw', and every session loads the objects saved by any session.
C10_OpenAfterInit ==
    config.some =>
        /\ lastOp.op = "open" =>
             IF lastOp.password = InitPassword
             THEN lastOp.res = Ok(sessions[1])
             ELSE lastOp.res = Err("InvalidPassword")
        /\ \A sid \in 1..Len(sessions), id \in DOMAIN snapshots :
             /\ LoadSnapshot(sessions[sid], id).ok
             /\ LoadSnapshot(sessions[sid], id).v.id = id

\* C10's case: a session returned by open loads a snapshot after both an
\* accepted and a rejected open.
C10_Witness ==
    /\ config.some
    /\ lastOp.op = "open"
    /\ lastOp.password # InitPassword
    /\ lastOp.res = Err("InvalidPassword")
    /\ Len(sessions) >= 2
    /\ snapshots # EmptyMap

\* Whether the password unseals the key file: the key derived from the
\* password and the file's own salt decrypts its encrypted_key
Unseals(password, key_file) ==
    Decrypt(DeriveFromPassword(password, key_file.salt),
            key_file.encrypted_key).ok

\* C11: when keys/ holds several key files, open succeeds iff the password
\* unseals at least one of them, whatever the order of enumeration, and
\* fails with InvalidPassword only when no key file unseals.
C11_OpenTriesEveryKeyFile ==
    (lastOp.op = "open" /\ config.some) =>
        LET some_unseals ==
                \E k \in DOMAIN keys : Unseals(lastOp.password, keys[k])
        IN /\ lastOp.res.ok <=> some_unseals
           /\ lastOp.res = Err("InvalidPassword") => ~some_unseals

\* C12: open on a path that holds no repository (the path does not exist,
\* or it exists but has no config object) fails with RepositoryNotFound
\* and creates no object.
C12_OpenWithoutRepository ==
    (lastOp.op = "open" /\ ~config.some) =>
        /\ lastOp.res = Err("RepositoryNotFound")
        /\ StoreEmpty

\* The retryable errors, as the specification of the retry policy names
\* them: I/O errors and backend errors whose text shows a transient
\* condition
Transient(outcome) ==
    /\ ~outcome.ok
    /\ \/ outcome.err.kind = "Io"
       \/ /\ outcome.err.kind = "Backend"
          /\ \E pattern \in TransientPatterns :
                Contains(outcome.err.msg, pattern)

\* The call of retry_with_backoff has made an invocation of the operation
Invoked == rt.pc \in {"loop", "returned", "panicked"} /\ rt.outs # <<>>

\* C13: an operation that fails with a retryable error on its first k
\* attempts and then succeeds, k < max_attempts, is invoked again after
\* each of the k failures, and retry_with_backoff returns its success
\* after exactly k+1 invocations.
C13_SuccessAfterTransientFailures ==
    Invoked =>
        LET n == Len(rt.outs)
        IN /\ (\A i \in 1..n : Transient(rt.outs[i]))
                 /\ n < rt.config.max_attempts
              => rt.pc = "loop"
           /\ \A i \in 1..n :
                 rt.outs[i].ok =>
                    i = n /\ rt.pc = "returned" /\ rt.res = rt.outs[i]

\* C13's case: the operation failed twice, with 503 and with an I/O error,
\* and its third invocation succeeded.
C13_Witness ==
    /\ Invoked
    /\ rt.pc = "returned"
    /\ Len(rt.outs) = 3
    /\ rt.outs[1] = Err(Error("Backend", <<"5", "0", "3">>))
    /\ rt.outs[2] = Err(Error("Io", <<>>))
    /\ rt.res = Ok(42)

\* C14: when every attempt fails with a retryable error, retry_with_backoff
\* terminates having invoked the operation exactly max_attempts times and
\* slept once between consecutive attempts, and returns the error of the
\* last attempt.
C14_ExhaustedRetriesReturnLastError ==
    (/\ rt.pc \in {"returned", "panicked"}
     /\ \A i \in 1..Len(rt.outs) : Transient(rt.outs[i])) =>
        /\ rt.pc = "returned"
        /\ Len(rt.outs) = rt.config.max_attempts
        /\ Len(rt.sleeps) = Len(rt.outs) - 1
        /\ rt.res = rt.outs[Len(rt.outs)]

\* C15: when an attempt fails with a non-retryable error,
\* retry_with_backoff returns that error at once: the attempt is the last
\* invocation and no sleep follows it, whatever max_attempts is.
C15_NonRetryableReturnsAtOnce ==
    Invoked =>
        \A i \in 1..Len(rt.outs) :
            (~rt.outs[i].ok /\ ~Transient(rt.outs[i])) =>
                /\ i = Len(rt.outs)
                /\ rt.pc = "returned"
                /\ rt.res = rt.outs[i]
                /\ Len(rt.sleeps) = i - 1

\* C15's case: the second attempt failed with InvalidPassword after a
\* retried failure, with a third attempt still allowed.
C15_Witness ==
    /\ Invoked
    /\ rt.config.max_attempts = 3
    /\ Len(rt.outs) = 2
    /\ Transient(rt.outs[1])
    /\ rt.outs[2] = Err(Error("InvalidPassword", <<>>))
    /\ rt.res = rt.outs[2]
    /\ Len(rt.sleeps) = 1

\* C16: with jitter off, backoff_duration(n) is
\* min(initial_backoff * multiplier^n, max_backoff) for every attempt
\* number n; for multiplier >= 1 the delay is non-decreasing in n and never
\* exceeds max_backoff.  (Durations compared in microseconds, both sides
\* multiplied by the denominator of multiplier^n.)
C16_BackoffIsCappedExponential ==
    (rt.pc = "backoff" /\ ~rt.config.jitter) =>
        LET c == rt.config
            n == rt.attempt
            m == c.backoff_multiplier
        IN /\ rt.duration_ms * 1000 * Pow(m.den, n)
                 = Min(c.initial_backoff * Pow(m.num, n),
                       c.max_backoff * Pow(m.den, n))
           /\ m.num >= m.den =>
                 /\ rt.duration_ms * 1000 <= c.max_backoff
                 /\ n > 0 => BackoffDuration(c, n - 1, 0) <= rt.duration_ms

\* C17: a blob read of a missing object is attempted exactly once: for
\* every object path, the not-found failure of a backend read is classified
\* non-retryable.
C17_MissingObjectReadOnce ==
    (be.op.name = "read" /\ be.op.fails = 0 /\ ~be.op.clean.ok) =>
        /\ ~IsRetryable(be.op.clean.err)
        /\ be.op.calls = 1
        /\ be.op.res = be.op.clean

\* C18: every operation of the blob interface runs under
\* retry_with_backoff: when its first attempt meets a transient failure of
\* the file system and the next one does not, the operation returns what
\* it returns on a file system that does not fail.
C18_EveryOperationRetried ==
    (be.op.name # "none" /\ be.op.fails = 1 /\ be.op.clean.ok) =>
        be.op.res = be.op.clean

\* C19: writing a repository object (pack, tree, snapshot, index entry) is
\* atomic-visible: also when the write is interrupted, the object's path
\* holds either no object or the complete object, never a partial one.
C19_ObjectWritesAreAtomic ==
    /\ \A pack_id \in DOMAIN packs : packs[pack_id].complete
    /\ \A chunk_id \in DOMAIN index : index[chunk_id].complete
    /\ \A tree_id \in DOMAIN trees : trees[tree_id].complete
    /\ \A id \in DOMAIN snapshots : snapshots[id].complete

\* C20: for every store state and every prefix, list(prefix) returns
\* exactly the paths of the currently existing objects whose path begins
\* with prefix: objects at any depth, nothing that was not put, in the path
\* form that read accepts.
C20_ListReturnsObjectsUnderPrefix ==
    be.op.name = "list" =>
        (be.op.fails = 0 =>
            be.op.res = Ok({path \in BackendInputs.objects :
                              /\ RawRead(be, path).ok
                              /\ StartsWith(path, be.op.path)}))

\* The nodes of the tree the backup has committed
CommittedNodes == OpenSealed(RepoKey, trees[bk.tree_id.v]).v.nodes

\* The backup command has returned Ok
BackupCommitted ==
    pc = "idle" /\ out.cmd = "backup" /\ out.phase = "done" /\ out.res.ok

\* C21: if processing one file fails during a backup, the loop goes on to
\* the next file, the failed file gets no node in the committed tree, every
\* other scanned file is processed and gets its node, and the tree and the
\* snapshot are committed.
C21_FailedFileIsSkipped ==
    /\ [][bk'.failed # bk.failed => pc' = "periodic"]_vars
    /\ [](BackupCommitted /\ bk.failed # {} =>
            /\ out.res.v \in DOMAIN snapshots
            /\ bk.tree_id.v \in DOMAIN trees
            /\ \A k \in 1..Len(bk.tree_nodes) :
                 LET f == bk.tree_nodes[k].src
                     has_node == \E n \in 1..Len(CommittedNodes) :
                                    CommittedNodes[n].src = f
                 IN IF f \in bk.failed THEN ~has_node ELSE has_node)

C23_RestoreFailureIsReported ==
    (pc = "idle" /\ out.cmd = "restore" /\ out.phase = "done" /\ out.res.ok) =>
        /\ out.snapshot_id \in DOMAIN snapshots
        /\ snapshots[out.snapshot_id].complete
        /\ out.failed = 0

\* C24: reading a chunk from a corrupt pack fails with the CorruptedPack
\* error kind: when a directory entry has offset + stored length beyond the
\* data region (here: the pack built so far with its data region cut short
\* by one byte), get_chunk of every chunk of the pack is
\* Err(CorruptedPack); and when a block fails AEAD verification, read_from
\* is Err(CorruptedPack).
C24_CorruptPackIsCorruptedPack ==
    /\ LET short == [pf EXCEPT !.data = SubSeq(@, 1, Len(@) - 1)]
           beyond == \E e \in DOMAIN short.chunks :
                        short.chunks[e].offset + short.chunks[e].length
                            > Len(short.data)
       IN beyond => \A id \in DOMAIN short.chunks :
                        PackFileGetChunk(short, id) = Err("CorruptedPack")
    /\ (pfRead.some /\ ~pfRead.v.res.ok) =>
            pfRead.v.res = Err("CorruptedPack")

\* C25: load_snapshot of a snapshot ID that has no object under snapshots/
\* fails with SnapshotNotFound.
C25_MissingSnapshotIsNotFound ==
    (lastOp.op = "load" /\ lastOp.id \notin DOMAIN snapshots) =>
        lastOp.res = Err("SnapshotNotFound")

\* C26: the tree ID returned by save_tree depends on the tree alone and not
\* on the encryption nonce: two tree objects saved from equal trees (in the
\* same or in different sessions) have the same ID, that is, they are one
\* object under data/.
C26_EqualTreesHaveOneId ==
    \A t1 \in DOMAIN trees, t2 \in DOMAIN trees :
        (/\ trees[t1].complete
         /\ trees[t2].complete
         /\ LoadTree(RepoKey, t1).ok
         /\ LoadTree(RepoKey, t1) = LoadTree(RepoKey, t2)) => t1 = t2

C29_AddChunkSkipsDuplicate ==
    [][\A data \in ChunkDatas :
         (/\ pfLog' = Append(pfLog, <<ChunkIdOf(data), data>>)
          /\ ChunkIdOf(data) \in DOMAIN pf.chunks)
         => (/\ pf'.header = pf.header
             /\ pf'.chunks = pf.chunks
             /\ pf'.data = pf.data)]_vars

\* C30: in the serialized pack written by write_to, the u32 length prefix
\* of the header block and of the directory block each equals the length
\* in bytes of the sealed (nonce + ciphertext + tag) block that follows it,
\* so that read_exact of that many bytes obtains the complete sealed block.
C30_PrefixIsSealedLength ==
    pfWire.some =>
        LET bytes == pfWire.v.bytes
        IN /\ bytes[1] = bytes[2].len
           /\ ReadExact(bytes[2], bytes[1]) = bytes[2]
           /\ bytes[3] = bytes[4].len
           /\ ReadExact(bytes[4], bytes[3]) = bytes[4]

\* C31: PackManager::add_chunk returns a pack exactly when an open pack
\* existed and was already full (data length >= max_pack_size) before the
\* call, and that pack is returned as it was, without the new chunk;
\* otherwise it returns None.  In both cases the chunk is in the open pack
\* afterwards; a full pack receives no chunk (the open pack is then a new
\* one holding the new chunk only), and a pack that is not full stays the
\* open pack.
C31_AddChunkSealsFullPack ==
    [][lastOp'.op = "add_chunk" =>
         LET before   == pm.current_pack
             was_full == /\ before.some
                         /\ Len(before.v.data) >= pm.max_pack_size
             open     == pm'.current_pack
         IN /\ lastOp'.ret = (IF was_full THEN before ELSE None)
            /\ open.some
            /\ lastOp'.id \in DOMAIN open.v.chunks
            /\ was_full =>
                  /\ open.v.header.pack_id # before.v.header.pack_id
                  /\ DOMAIN open.v.chunks = {lastOp'.id}
            /\ (before.some /\ ~was_full) =>
                  /\ open.v.header.pack_id = before.v.header.pack_id
                  /\ DOMAIN before.v.chunks \subseteq DOMAIN open.v.chunks]_vars

\* C31's case: add_chunk found the open pack full and returned it
C31_Witness ==
    /\ lastOp.op = "add_chunk"
    /\ lastOp.ret.some
    /\ Len(lastOp.ret.v.data) >= pm.max_pack_size
    /\ lastOp.id \notin DOMAIN lastOp.ret.v.chunks

\* The chunk IDs in the directories of the packs handed to the caller and
\* of the open pack
HeldIds ==
    UNION {DOMAIN Returned[k].chunks : k \in 1..Len(Returned)}
    \cup (IF pm.current_pack.some THEN DOMAIN pm.current_pack.v.chunks ELSE {})

\* C34: no chunk is lost by the PackManager: at every point of a sequence
\* of add_chunk and finish_current_pack calls every chunk ID passed to
\* add_chunk is in the directory of a returned pack or of the open pack and
\* no pack holds an ID that was never added; after finish_current_pack no
\* open pack remains, and a finish that follows a finish returns None.
C34_NoChunkLost ==
    /\ [](HeldIds = {pfLog[k][1] : k \in 1..Len(pfLog)})
    /\ [](lastOp.op = "finish" => ~pm.current_pack.some)
    /\ [][(lastOp.op = "finish" /\ lastOp'.op = "finish") =>
             lastOp'.ret = None]_vars

\* C34's case: a full pack was returned by add_chunk, more chunks were
\* added, and finish_current_pack returned the open pack.
C34_Witness ==
    /\ lastOp.op = "finish"
    /\ lastOp.ret.some
    /\ Len(lastOp.returned) >= 2
    /\ Len(pfLog) >= 3

\* C32: after any sequence of add_chunk calls on a PackFile, every
\* directory entry satisfies offset + stored length <= len(data region),
\* and the byte ranges [offset, offset + stored length) of distinct
\* directory entries do not overlap.
C32_RangesWithinDataAndDisjoint ==
    /\ \A id \in DOMAIN pf.chunks :
         pf.chunks[id].offset + pf.chunks[id].length <= Len(pf.data)
    /\ \A a \in DOMAIN pf.chunks, b \in DOMAIN pf.chunks :
         a # b =>
            \/ pf.chunks[a].offset + pf.chunks[a].length <= pf.chunks[b].offset
            \/ pf.chunks[b].offset + pf.chunks[b].length <= pf.chunks[a].offset

\* C32's case: three add_chunk calls, one of them repeating a ChunkID, have
\* left two directory entries.
C32_Witness ==
    /\ Len(pfLog) = 3
    /\ Cardinality(DOMAIN pf.chunks) = 2

\* C33: after any sequence of add_chunk calls on a PackFile (calls that
\* repeat a ChunkID included), header.chunk_count is the number of
\* directory entries, header.compressed_size is len(data region) and the
\* sum of stored lengths over the directory, and header.uncompressed_size
\* is the sum of the plaintext lengths over the directory.
C33_HeaderAgreesWithDirectory ==
    LET ids == DOMAIN pf.chunks
    IN /\ pf.header.chunk_count = Cardinality(ids)
       /\ pf.header.compressed_size = Len(pf.data)
       /\ pf.header.compressed_size
            = SumOver(ids, [id \in ids |-> pf.chunks[id].length])
       /\ pf.header.uncompressed_size
            = SumOver(ids, [id \in ids |-> pf.chunks[id].uncompressed_length])

\* C35: after any sequence of add_index and compact calls,
\* IndexManager::has_chunk(id) is true iff some added index contained id,
\* and get_chunk(id) returns the metadata of the most recently added index
\* that contains id; compact changes neither answer for any id and is
\* idempotent (a compact that follows a compact changes nothing and returns
\* the same index).
C35_MasterIndexIsLatestWins ==
    /\ [](\A id \in {ChunkIdOf(<<1>>), ChunkIdOf(<<2>>)} :
            LET holders == {k \in 1..Len(im.added) :
                              id \in DOMAIN im.added[k].chunks}
                latest  == CHOOSE k \in holders : \A j \in holders : j <= k
            IN /\ IndexManagerHasChunk(im.m, id) <=> holders # {}
               /\ IndexManagerGetChunk(im.m, id)
                    = (IF holders = {} THEN None
                       ELSE Some(im.added[latest].chunks[id])))
    /\ [][im'.op = "compact" =>
             /\ im'.m.master_index.chunks = im.m.master_index.chunks
             /\ im.op = "compact" => (im'.m = im.m /\ im'.ret = im.ret)]_vars

\* C35's case: three indexes were added, the last two with different
\* metadata for one chunk, and compact has merged them into one.
C35_Witness ==
    /\ im.op = "compact"
    /\ Len(im.added) = 3
    /\ Len(im.m.indices) = 1
    /\ \E id \in DOMAIN im.added[2].chunks \cap DOMAIN im.added[3].chunks :
         /\ im.added[2].chunks[id] # im.added[3].chunks[id]
         /\ id \notin DOMAIN im.added[1].chunks

\* C36: for every RetryConfig, max_attempts = 0 included, retry_with_backoff
\* returns an Ok or Err value and never panics.
C36_RetryNeverPanics == rt.pc # "panicked"

\* C37: when LocalBackend::write calls run concurrently (two writes to the
\* same path, or writes to two paths that differ only in their extension),
\* every path that exists when both have returned (the temp path aside)
\* holds exactly the complete bytes given to one write addressed to that
\* path: never bytes destined for another path and never a mix of two
\* writes.
C37_ConcurrentWritesKeepTheirBytes ==
    (/\ be.op.name = "writes"
     /\ \A k \in {1, 2} : be.op.tasks[k].pc = "done"
     /\ be.op.cleanups = {}) =>
        \A f \in DOMAIN be.files :
            f # WithExtensionTmp(f) =>
                \E k \in {1, 2} :
                    /\ FullPath(be.op.tasks[k].path).v = f
                    /\ be.files[f].bytes = be.op.tasks[k].data


\* C38: an init(path, pw) that was interrupted after any of its steps leaves
\* the path in a state where open(path, pw) succeeds or a repeated
\* init(path, pw) is not rejected with RepositoryExists.
C38_InterruptedInitIsRecoverable ==
    (/\ ini.pc = "idle"
     /\ lastOp.op = "init"
     /\ lastOp.res = Err("Interrupted")) =>
        \/ \A first \in FirstKeyEntries : OpenResult(lastOp.password, first).ok
        \/ ~InitRejects
====
